---- MODULE Spec2Model ----
(***************************************************************************)
(* Device communication and frame-decoding engine of the biosignal device  *)
(* interface: the connection / configuration / streaming state machine of  *)
(* BaseDevice and its OTB device classes (Muovi, Sessantaquattro,          *)
(* Quattrocento), the frame reassembly of _read_data and the sample        *)
(* decoder of _bytes_to_integers.                                          *)
(*                                                                         *)
(* A device object is the record `self` (one field per Python attribute,   *)
(* under the attribute's own name).  `net` is the transport as the device  *)
(* sees it, `out` records what the last handler did (signals emitted,      *)
(* commands written, exception raised, value returned), `hist` holds       *)
(* history variables and `dec` the input and result of the sample decoder. *)
(* A Python exception ends the handler where it is raised and keeps the    *)
(* assignments made before it.                                             *)
(***************************************************************************)
EXTENDS Integers, Sequences, FiniteSets, TLC

VARIABLES self, net, out, hist, dec

vars == <<self, net, out, hist, dec>>

(***************************************************************************)
(* Bounds of the model.                                                    *)
(***************************************************************************)
\* frames' worth of bytes the transport may hold unread at most
MaxFrames == 3
\* channels and samples per frame of the frames given to the decoder
MaxChannels == 2
MaxSamples == 2

(***************************************************************************)
(* Python values.                                                          *)
(***************************************************************************)
\* None, for the attributes that hold a number once set
None == -1
\* an attribute that __init__ does not create (hasattr is False)
Absent == -2

\* str(bool)
PyTrue == "True"
PyFalse == "False"
PyNone == "None"

(***************************************************************************)
(* Device types and enumerations.                                          *)
(***************************************************************************)
OTB_MUOVI == "OTB_MUOVI"
OTB_MUOVI_PLUS == "OTB_MUOVI_PLUS"
OTB_SESSANTAQUATTRO == "OTB_SESSANTAQUATTRO"
OTB_QUATTROCENTO == "OTB_QUATTROCENTO"

DeviceType == {OTB_MUOVI, OTB_MUOVI_PLUS, OTB_SESSANTAQUATTRO, OTB_QUATTROCENTO}

IsMuovi(t) == t \in {OTB_MUOVI, OTB_MUOVI_PLUS}
IsSessantaquattro(t) == t = OTB_SESSANTAQUATTRO
IsQuattrocento(t) == t = OTB_QUATTROCENTO
\* listener role: the device class owns a QTcpServer and accepts the hardware
IsListener(t) == IsMuovi(t) \/ IsSessantaquattro(t)

\* Sessantaquattro enumerations (value of each member; NONE = 0 is "unset")
SessantaquattroSamplingFrequencyMode ==
    [NONE |-> 0, LOW |-> 1, MEDIUM |-> 2, HIGH |-> 3, ULTRA |-> 4]
SessantaquattroDetectionMode ==
    [NONE |-> 0, MONOPOLAR |-> 1, BIPOLAR |-> 2, DIFFERENTIAL |-> 3,
     ACCELEROMETER |-> 4, UNDEFINED |-> 5, IMPEDANCE_ADVANCED |-> 6,
     IMPEDANCE |-> 7, TEST |-> 8]
SessantaquattroChannelMode ==
    [NONE |-> 0, LOW |-> 1, MEDIUM |-> 2, HIGH |-> 3, ULTRA |-> 4]
SessantaquattroResolutionMode == [NONE |-> 0, LOW |-> 1, HIGH |-> 2]
SessantaquattroGainMode ==
    [NONE |-> 0, DEFAULT |-> 1, LOW |-> 2, MEDIUM |-> 3, HIGH |-> 4]
SessantaquattroTriggerMode ==
    [NONE |-> 0, DEFAULT |-> 1, INTERNAL |-> 2, EXTERNAL |-> 3, SDCARD |-> 4]
SessantaquattroRecordingMode == [NONE |-> 0, STOP |-> 1, START |-> 2]

\* Muovi enumerations (the constants module of the Muovi)
MuoviWorkingMode == [NONE |-> 0, EEG |-> 1, EMG |-> 2]
MuoviDetectionMode ==
    [NONE |-> 0, MONOPOLAR_GAIN_8 |-> 1, MONOPOLAR_GAIN_4 |-> 2,
     IMPEDANCE_CHECK |-> 3, TEST |-> 4]

(***************************************************************************)
(* Arithmetic helpers.                                                     *)
(***************************************************************************)
RECURSIVE Pow2(_)
Pow2(n) == IF n = 0 THEN 1 ELSE 2 * Pow2(n - 1)

\* Python's a << n
Shl(a, n) == a * Pow2(n)

\* an arange that counts from 0 whatever its start
ArangeFromZero(start, stop) == [i \in 1..(stop - start) |-> i - 1]

\* np.arange(start, stop)
Arange(start, stop) == [i \in 1..(stop - start) |-> start + i - 1]

\* Python's a ^ b on two 8-bit values
RECURSIVE Xor8(_, _, _)
Xor8(a, b, bits) ==
    IF bits = 0 THEN 0
    ELSE (IF (a % 2) = (b % 2) THEN 0 ELSE 1) + 2 * Xor8(a \div 2, b \div 2, bits - 1)

(***************************************************************************)
(* Device Profile Registry: the lookup tables of the constants modules.    *)
(* A lookup of a key that the table does not hold raises KeyError.         *)
(***************************************************************************)
\* _get_sampling_frequency
Sessantaquattro_get_sampling_frequency(detection_mode, sampling_freq_mode) ==
    LET base_freq == IF detection_mode = SessantaquattroDetectionMode.ACCELEROMETER
                     THEN 2000 ELSE 500
    IN  base_freq * Pow2(sampling_freq_mode - 1)

\* _get_biosignal_channel_count
Sessantaquattro_get_biosignal_channel_count(sampling_freq_mode, detection_mode) ==
    LET base_channels == 8 * Pow2(sampling_freq_mode - 1)
    IN  IF detection_mode = SessantaquattroDetectionMode.BIPOLAR
        THEN base_channels \div 2
        ELSE base_channels

\* keys of SESSANTAQUATTRO_DETECTION_MODE_CHARACTERISTICS_DICT and of
\* SESSANTAQUATTRO_CHANNEL_MODE_CHARACTERISTICS_DICT: every member but NONE
SessantaquattroDetectionKeys == 1..8
SessantaquattroSamplingFrequencyKeys == 1..4

\* the auxiliary channel count of SESSANTAQUATTRO_CHANNEL_MODE_CHARACTERISTICS_DICT
SESSANTAQUATTRO_AUXILIARY_CHANNELS == 4

\* keys of SESSANTAQUATTRO_GAIN_MODE_CHARACTERISTICS_DICT
SessantaquattroResolutionKeys == 1..2
SessantaquattroGainKeys == 1..4

SESSANTAQUATTRO_SAMPLES_PER_FRAME_DICT == [m \in 1..4 |-> <<48, 28, 16, 8>>[m]]

\* MUOVI_WORKING_MODE_CHARACTERISTICS_DICT[mode]["bytes_per_sample"]
MUOVI_BYTES_PER_SAMPLE == [m \in 1..2 |-> <<3, 2>>[m]]
\* MUOVI_WORKING_MODE_CHARACTERISTICS_DICT[mode]["sampling_frequency"]
MUOVI_SAMPLING_FREQUENCY == [m \in 1..2 |-> <<500, 2000>>[m]]
\* MUOVI_SAMPLES_PER_FRAME_DICT[device_type][mode]
MUOVI_SAMPLES_PER_FRAME_DICT(t) ==
    IF t = OTB_MUOVI THEN [m \in 1..2 |-> <<12, 12>>[m]]
    ELSE [m \in 1..2 |-> <<6, 6>>[m]]
\* MUOVI_AVAILABLE_CHANNELS_DICT[device_type]
MUOVI_AVAILABLE_CHANNELS_DICT(t) ==
    IF t = OTB_MUOVI THEN [ALL |-> 32, BIOSIGNAL |-> 32, AUXILIARY |-> 0]
    ELSE [ALL |-> 64, BIOSIGNAL |-> 64, AUXILIARY |-> 0]
\* keys of MUOVI_CONVERSION_FACTOR_DICT: every detection mode but NONE
MuoviDetectionKeys == 1..4
MuoviWorkingKeys == 1..2

(***************************************************************************)
(* The device object after __init__.                                       *)
(***************************************************************************)
\* settings = None. Connection settings are a host, the decimal digits of
\* its dot-separated parts, and a port.
NoSettings == [host |-> <<>>, port |-> None]

\* BaseDevice.__init__
BaseDevice_init(t) ==
    [_device_type |-> t,
     _sampling_frequency |-> None,
     _number_of_channels |-> None,
     _number_of_biosignal_channels |-> None,
     _number_of_auxiliary_channels |-> None,
     _biosignal_channel_indices |-> None,
     _auxiliary_channel_indices |-> None,
     _samples_per_frame |-> None,
     _bytes_per_sample |-> None,
     _interface |-> "None",
     _connection_settings |-> NoSettings,
     _buffer_size |-> None,
     _received_bytes |-> None,
     _connection_timeout_timer |-> "inactive",
     is_connected |-> FALSE,
     _is_configured |-> FALSE,
     _is_streaming |-> FALSE]

\* r with the fields of e added
Extend(r, e) ==
    [k \in DOMAIN r \cup DOMAIN e |-> IF k \in DOMAIN e THEN e[k] ELSE r[k]]

\* OTBMuovi.__init__
OTBMuovi_init(t) ==
    Extend(BaseDevice_init(t),
           [_client_socket |-> "None",
            _working_mode |-> MuoviWorkingMode.NONE,
            _detection_mode |-> MuoviDetectionMode.NONE,
            _configuration_command |-> None])

\* OTBSessantaquattro.__init__ (it does not create _configuration_command).
\* Line 65 names DeviceType.OTB_SESSANTAQUATTRO, a member that the DeviceType
\* enumeration of constants/devices/core does not list; the object is
\* modelled as the constructor writes it, with that member as its type.
OTBSessantaquattro_init ==
    Extend(BaseDevice_init(OTB_SESSANTAQUATTRO),
           [_client_socket |-> "None",
            _sampling_frequency_mode |-> SessantaquattroSamplingFrequencyMode.NONE,
            _channel_mode |-> SessantaquattroChannelMode.NONE,
            _detection_mode |-> SessantaquattroDetectionMode.NONE,
            _resolution_mode |-> SessantaquattroResolutionMode.NONE,
            _gain_mode |-> SessantaquattroGainMode.NONE,
            _trigger_mode |-> SessantaquattroTriggerMode.NONE,
            _recording_mode |-> SessantaquattroRecordingMode.NONE,
            _configuration_command |-> Absent])

\* length of the Quattrocento's command buffer, bytearray(40)
QuattrocentoCommandLength == 40

\* OTBQuattrocento.__init__ (it does not create _is_connected; the attribute
\* is FALSE here until _make_request creates it)
OTBQuattrocento_init ==
    Extend(BaseDevice_init(OTB_QUATTROCENTO),
           [_interface |-> "unconnected",
            _number_of_streamed_channels |-> None,
            _configuration_command |-> [i \in 1..QuattrocentoCommandLength |-> 0],
            _is_connected |-> FALSE])

\* a constructor of OTBMuovi that ignores is_muovi_plus
OTBMuovi_ignoring_variant(is_muovi_plus) == OTBMuovi_init(OTB_MUOVI)

\* OTBMuovi(is_muovi_plus=...): the variant chooses the device type
OTBMuovi(is_muovi_plus) ==
    OTBMuovi_init(IF is_muovi_plus THEN OTB_MUOVI_PLUS ELSE OTB_MUOVI)

NewDevice(t) ==
    IF IsMuovi(t) THEN OTBMuovi(t = OTB_MUOVI_PLUS)
    ELSE IF IsSessantaquattro(t) THEN OTBSessantaquattro_init
    ELSE OTBQuattrocento_init

(***************************************************************************)
(* The world a handler runs in, and the record of what it did.             *)
(***************************************************************************)
\* nothing done yet by the handler op
NoOutput(op) ==
    [op |-> op, sig |-> <<>>, wr |-> <<>>, exc |-> "none", ret |-> PyNone,
     frames |-> 0]

World == [self |-> self, net |-> net, out |-> out, hist |-> hist]

\* the world at the start of handler op
Begin(op) == [World EXCEPT !.out = NoOutput(op)]

\* signal.emit(value)
Emit(w, signal, value) == [w EXCEPT !.out.sig = Append(@, <<signal, value>>)]

\* raise e
Raise(w, e) == [w EXCEPT !.out.exc = e]
Raised(w) == w.out.exc # "none"

\* return v
Return(w, v) == [w EXCEPT !.out.ret = v]

Emitted(o, signal, value) == \E i \in 1..Len(o.sig) : o.sig[i] = <<signal, value>>

(***************************************************************************)
(* Disconnect.                                                             *)
(***************************************************************************)
\* BaseDevice._disconnect_from_device
BaseDevice_disconnect_from_device(w) ==
    LET w1 == [w EXCEPT !.self.is_connected = FALSE]
        w2 == Emit(w1, "connect_toggled", FALSE)
        w3 == [w2 EXCEPT !.self._is_configured = FALSE]
    IN  Emit(w3, "configure_toggled", FALSE)

\* a close() that reopens a server that is not listening
ServerCloseOrReopen(state) == IF state = "listening" THEN "closed" ELSE "listening"

\* QTcpServer.close()
ServerClose(state) == IF state = "listening" THEN "closed" ELSE state

\* OTBMuovi._disconnect_from_device, OTBSessantaquattro._disconnect_from_device.
\* rd: readyRead.disconnect of a slot that is not connected raises (it raises
\* RuntimeError or only warns, by the version of the Qt binding).
Listener_disconnect_from_device(w, rd) ==
    LET w1 == [BaseDevice_disconnect_from_device(w) EXCEPT !.hist.profile_fresh = FALSE]
    IN  IF w1.self._client_socket # "None" /\ w1.self._client_socket # "open" /\ rd
        THEN Raise(w1, "RuntimeError")
        ELSE LET w2 == IF w1.self._client_socket # "None"
                       THEN [w1 EXCEPT !.self._client_socket = "closed", !.net.sock = 0]
                       ELSE w1
                 w3 == IF w2.self._interface # "None"
                       THEN [w2 EXCEPT !.self._interface = ServerClose(@)]
                       ELSE w2
             IN  Return(w3, PyTrue)

\* OTBQuattrocento._disconnect_from_device
OTBQuattrocento_disconnect_from_device(w, rd) ==
    LET w1 == [BaseDevice_disconnect_from_device(w) EXCEPT !.hist.profile_fresh = FALSE]
        w2 == [w1 EXCEPT !.self._interface = "unconnected", !.net.sock = 0]
    IN  IF ~w2.net.slot /\ rd
        THEN Raise(w2, "RuntimeError")
        ELSE Return([w2 EXCEPT !.net.slot = FALSE], PyNone)

_disconnect_from_device(w, rd) ==
    IF IsListener(w.self._device_type)
    THEN Listener_disconnect_from_device(w, rd)
    ELSE OTBQuattrocento_disconnect_from_device(w, rd)

(***************************************************************************)
(* Connect.                                                                *)
(***************************************************************************)
\* OTBMuovi._connect_to_device, OTBSessantaquattro._connect_to_device.
\* listen_ok: QTcpServer.listen succeeds. The server object that _interface
\* held stays alive as a child of the device: if it was listening it goes on
\* listening (net.orphans).
Listener_connect_to_device(w, listen_ok) ==
    LET w1 == [w EXCEPT !.net.orphans = IF w.self._interface = "listening" THEN @ + 1 ELSE @,
                        !.self._interface = "created",
                        !.self._received_bytes = 0]
    IN  IF w1.self._connection_settings = NoSettings
        THEN Raise(w1, "TypeError")
        ELSE IF ~listen_ok
        THEN Return(w1, PyFalse)
        ELSE Return([w1 EXCEPT !.self._interface = "listening",
                               !.self._connection_timeout_timer = "active"], PyTrue)

\* OTBQuattrocento._make_request. dial_ok: waitForConnected(1000) is true.
OTBQuattrocento_make_request(w, dial_ok, rd) ==
    IF w.self._connection_settings = NoSettings
    THEN Raise(w, "TypeError")
    ELSE IF ~dial_ok
    THEN LET w1 == OTBQuattrocento_disconnect_from_device(w, rd)
         IN  IF Raised(w1) THEN w1 ELSE Return(w1, PyFalse)
    ELSE LET w1 == [w EXCEPT !.self._interface = "connected", !.net.slot = TRUE,
                             !.self._is_connected = TRUE]
         IN  Return(Emit(w1, "connect_toggled", TRUE), PyTrue)

\* OTBQuattrocento._connect_to_device
OTBQuattrocento_connect_to_device(w, dial_ok, rd) ==
    OTBQuattrocento_make_request([w EXCEPT !.self._received_bytes = 0], dial_ok, rd)

\* ok: the outcome of the transport operation (listen, or the dial)
_connect_to_device(w, ok, rd) ==
    IF IsListener(w.self._device_type)
    THEN Listener_connect_to_device(w, ok)
    ELSE OTBQuattrocento_connect_to_device(w, ok, rd)

\* OTBMuovi._make_request, OTBSessantaquattro._make_request, run by the
\* newConnection signal. pending: the server that _interface holds now has a
\* pending connection (FALSE when the signal came from an earlier server).
Listener_make_request(w, pending) ==
    IF ~pending
    THEN Return([w EXCEPT !.self._client_socket = "None", !.net.sock = 0], PyNone)
    ELSE LET w1 == [w EXCEPT !.self._client_socket = "open", !.net.sock = 0]
         IN  IF ~w1.self.is_connected
             THEN LET w2 == Emit([w1 EXCEPT !.self.is_connected = TRUE],
                                 "connect_toggled", TRUE)
                  IN  Return([w2 EXCEPT !.self._connection_timeout_timer = "inactive"],
                             PyTrue)
             ELSE IF ~w1.self._is_configured
             THEN Return(Emit([w1 EXCEPT !.self._is_configured = TRUE],
                              "configure_toggled", TRUE), PyTrue)
             ELSE Return(w1, PyNone)

(***************************************************************************)
(* clear_socket.                                                           *)
(***************************************************************************)
\* OTBMuovi.clear_socket
OTBMuovi_clear_socket(w) ==
    IF w.self._client_socket # "None" THEN [w EXCEPT !.net.sock = 0] ELSE w

\* OTBSessantaquattro.clear_socket
OTBSessantaquattro_clear_socket(w) ==
    IF w.self._client_socket # "None"
    THEN [w EXCEPT !.net.sock = 0, !.self._received_bytes = 0]
    ELSE w

\* OTBQuattrocento.clear_socket (_interface is never None)
OTBQuattrocento_clear_socket(w) == [w EXCEPT !.net.sock = 0]

\* a clear_socket that reads nothing
clear_socket_reads_nothing(w) == w

clear_socket(w) ==
    IF IsMuovi(w.self._device_type) THEN OTBMuovi_clear_socket(w)
    ELSE IF IsSessantaquattro(w.self._device_type) THEN OTBSessantaquattro_clear_socket(w)
    ELSE OTBQuattrocento_clear_socket(w)

(***************************************************************************)
(* Configuration Encoder and the command writes.                           *)
(***************************************************************************)
\* hasattr(self, key)
HasAttr(s, key) ==
    /\ key \in DOMAIN s
    /\ ~(/\ key = "_configuration_command"
         /\ IsSessantaquattro(s._device_type)
         /\ s[key] = Absent)

\* BaseDevice._update_configuration_parameters (OTBQuattrocento overrides it
\* with the same loop). The keys of params carry the "_" already.
_update_configuration_parameters(w, params) ==
    [w EXCEPT !.self = [k \in DOMAIN w.self |->
                           IF k \in DOMAIN params /\ HasAttr(w.self, k)
                           THEN params[k] ELSE w.self[k]]]

\* int(command).to_bytes(1, byteorder="big") raises OverflowError
ToBytes1Overflows(command) == command < 0 \/ command > 255

\* QTcpSocket.write succeeds: the socket is open and the transport takes it
WriteSucceeds(socket, ok) == socket = "open" /\ ok

\* OTBMuovi._send_configuration_to_device,
\* OTBSessantaquattro._send_configuration_to_device
Listener_send_configuration_to_device(w, ok, rd) ==
    IF ToBytes1Overflows(w.self._configuration_command)
    THEN Raise(w, "OverflowError")
    ELSE IF w.self._client_socket = "None"
    THEN Raise(w, "AttributeError")
    ELSE LET success == WriteSucceeds(w.self._client_socket, ok)
             w1 == [w EXCEPT !.out.wr = Append(@, [cmd |-> w.self._configuration_command,
                                                   ok |-> success])]
         IN  IF ~success
             THEN Return(Listener_disconnect_from_device(w1, rd), PyNone)
             ELSE w1

\* OTBQuattrocento._send_configuration_to_device
OTBQuattrocento_send_configuration_to_device(w, ok) ==
    LET success == w.self._interface = "connected" /\ ok
    IN  [w EXCEPT !.out.wr = Append(@, [cmd |-> w.self._configuration_command,
                                        ok |-> success])]

\* OTBMuovi._configure_command
OTBMuovi_configure_command(w) ==
    LET command == Shl(w.self._working_mode, 2) + w.self._detection_mode
    IN  [w EXCEPT !.self._configuration_command = command,
                  !.hist.configured = command]

\* an encoder that keeps the sentinel NONE
KeptSentinel(value, default) == value

\* the enum member that replaces NONE before encoding
Defaulted(value, default) == IF value = 0 THEN default ELSE value

\* OTBSessantaquattro._configure_command
OTBSessantaquattro_configure_command(w) ==
    LET s == w.self
        recording == Defaulted(s._recording_mode, SessantaquattroRecordingMode.STOP)
        trigger == Defaulted(s._trigger_mode, SessantaquattroTriggerMode.DEFAULT)
        gain == Defaulted(s._gain_mode, SessantaquattroGainMode.DEFAULT)
        resolution == Defaulted(s._resolution_mode, SessantaquattroResolutionMode.LOW)
        detection == Defaulted(s._detection_mode, SessantaquattroDetectionMode.MONOPOLAR)
        channel == Defaulted(s._channel_mode, SessantaquattroChannelMode.LOW)
        sampling == Defaulted(s._sampling_frequency_mode,
                              SessantaquattroSamplingFrequencyMode.HIGH)
        command == Shl(recording - 1, 1) + Shl(trigger - 1, 2) + Shl(gain - 1, 4)
                   + Shl(0, 6) + Shl(resolution - 1, 7) + Shl(detection - 1, 8)
                   + Shl(channel - 1, 11) + Shl(sampling - 1, 13) + Shl(0, 15)
    IN  [w EXCEPT !.self._recording_mode = recording,
                  !.self._trigger_mode = trigger,
                  !.self._gain_mode = gain,
                  !.self._resolution_mode = resolution,
                  !.self._detection_mode = detection,
                  !.self._channel_mode = channel,
                  !.self._sampling_frequency_mode = sampling,
                  !.self._configuration_command = command,
                  !.hist.configured = command]

\* one bit of one byte with the XOR against 140 made before the shift
CrcBitXorFirst(crc, extracted_byte) ==
    LET sum == IF (crc % 2) = (extracted_byte % 2) THEN 0 ELSE 1
    IN  (IF sum > 0 THEN Xor8(crc, 140, 8) ELSE crc) \div 2

\* OTBQuattrocento._crc_check: one bit of one byte
CrcBit(crc, extracted_byte) ==
    LET sum == IF (crc % 2) = (extracted_byte % 2) THEN 0 ELSE 1
        half == crc \div 2
    IN  IF sum > 0 THEN Xor8(half, 140, 8) ELSE half

\* the for loop of _crc_check over the 8 bits of one byte (crc is a value
\* of 0..255 at every iteration)
RECURSIVE CrcByte(_, _, _)
CrcByte(crc, extracted_byte, i) ==
    IF crc \notin 0..255 \/ i = 0 THEN crc
    ELSE CrcByte(CrcBit(crc, extracted_byte), extracted_byte \div 2, i - 1)

\* the while loop of _crc_check from byte j on
RECURSIVE CrcFrom(_, _, _, _)
CrcFrom(command_bytes, command_length, j, crc) ==
    IF crc \in 0..255 /\ command_length > 0
    THEN CrcFrom(command_bytes, command_length - 1, j + 1,
                 CrcByte(crc, command_bytes[j], 8))
    ELSE crc

\* OTBQuattrocento._crc_check (command_bytes is 1-based here)
_crc_check(command_bytes, command_length) == CrcFrom(command_bytes, command_length, 1, 0)

(***************************************************************************)
(* configure_device.                                                       *)
(***************************************************************************)
\* OTBMuovi.configure_device
OTBMuovi_configure_device(w, params, ok, rd) ==
    LET w1 == _update_configuration_parameters(w, params)
    IN  IF ~w1.self.is_connected \/ w1.self._client_socket = "None"
        THEN w1
        ELSE LET w2 == IF /\ w1.self._working_mode = MuoviWorkingMode.EEG
                          /\ w1.self._detection_mode = MuoviDetectionMode.MONOPOLAR_GAIN_4
                       THEN [w1 EXCEPT !.self._detection_mode =
                                           MuoviDetectionMode.MONOPOLAR_GAIN_8]
                       ELSE w1
                 s == w2.self
             IN  IF s._detection_mode \notin MuoviDetectionKeys
                 THEN Raise(w2, "KeyError")
                 ELSE IF s._working_mode \notin MuoviWorkingKeys
                 THEN Raise(w2, "KeyError")
                 ELSE LET t == s._device_type
                          channels == MUOVI_AVAILABLE_CHANNELS_DICT(t)
                          bps == MUOVI_BYTES_PER_SAMPLE[s._working_mode]
                          spf == MUOVI_SAMPLES_PER_FRAME_DICT(t)[s._working_mode]
                          w3 == [w2 EXCEPT
                                   !.self._sampling_frequency =
                                       MUOVI_SAMPLING_FREQUENCY[s._working_mode],
                                   !.self._bytes_per_sample = bps,
                                   !.self._samples_per_frame = spf,
                                   !.self._number_of_channels = channels.ALL,
                                   !.self._number_of_biosignal_channels = channels.BIOSIGNAL,
                                   !.self._biosignal_channel_indices =
                                       Arange(0, channels.BIOSIGNAL),
                                   !.self._number_of_auxiliary_channels = channels.AUXILIARY,
                                   !.self._auxiliary_channel_indices =
                                       Arange(channels.BIOSIGNAL,
                                              channels.BIOSIGNAL + channels.AUXILIARY),
                                   !.self._buffer_size = channels.ALL * spf * bps,
                                   !.self._received_bytes = 0,
                                   !.hist.profile_fresh = TRUE]
                      IN  Listener_send_configuration_to_device(
                              OTBMuovi_configure_command(w3), ok, rd)

\* OTBSessantaquattro.configure_device
OTBSessantaquattro_configure_device(w, params, ok, rd) ==
    LET w1 == _update_configuration_parameters(w, params)
        s == w1.self
    IN  IF ~s.is_connected \/ s._client_socket = "None"
        THEN w1
        ELSE IF \/ s._detection_mode \notin SessantaquattroDetectionKeys
                \/ s._sampling_frequency_mode \notin SessantaquattroSamplingFrequencyKeys
        THEN Raise(w1, "KeyError")
        ELSE LET nb == Sessantaquattro_get_biosignal_channel_count(
                           s._sampling_frequency_mode, s._detection_mode)
                 na == SESSANTAQUATTRO_AUXILIARY_CHANNELS
                 bps == IF s._resolution_mode = SessantaquattroResolutionMode.LOW
                        THEN 2 ELSE 3
                 w2 == [w1 EXCEPT
                          !.self._sampling_frequency =
                              Sessantaquattro_get_sampling_frequency(
                                  s._detection_mode, s._sampling_frequency_mode),
                          !.self._number_of_biosignal_channels = nb,
                          !.self._biosignal_channel_indices = Arange(0, nb),
                          !.self._number_of_auxiliary_channels = na,
                          !.self._auxiliary_channel_indices = Arange(nb, nb + na),
                          !.self._number_of_channels = nb + na,
                          !.self._bytes_per_sample = bps]
             IN  IF \/ s._resolution_mode \notin SessantaquattroResolutionKeys
                    \/ s._gain_mode \notin SessantaquattroGainKeys
                 THEN Raise(w2, "KeyError")
                 ELSE IF s._channel_mode \notin DOMAIN SESSANTAQUATTRO_SAMPLES_PER_FRAME_DICT
                 THEN Raise(w2, "KeyError")
                 ELSE LET spf == SESSANTAQUATTRO_SAMPLES_PER_FRAME_DICT[s._channel_mode]
                          w3 == [w2 EXCEPT
                                   !.self._samples_per_frame = spf,
                                   !.self._buffer_size = (nb + na) * spf * bps,
                                   !.self._received_bytes = 0,
                                   !.hist.profile_fresh = TRUE]
                      IN  Listener_send_configuration_to_device(
                              OTBSessantaquattro_configure_command(w3), ok, rd)

\* QuattrocentoAcqSettByte().get_sampling_frequency()
QuattrocentoAcqSett_get_sampling_frequency == 2048
\* QuattrocentoAcqSettByte().get_number_of_channels()
QuattrocentoAcqSett_get_number_of_channels == 408

\* OTBQuattrocento.configure_device: the assignment of a bytes object to one
\* item of the bytearray (line 147) raises TypeError, whatever the bytes are
OTBQuattrocento_configure_device(w, params) ==
    LET w1 == _update_configuration_parameters(w, params)
        w2 == [w1 EXCEPT !.self._sampling_frequency =
                             QuattrocentoAcqSett_get_sampling_frequency,
                         !.self._number_of_streamed_channels =
                             QuattrocentoAcqSett_get_number_of_channels]
    IN  Raise(w2, "TypeError")

configure_device(w, params, ok, rd) ==
    IF IsMuovi(w.self._device_type) THEN OTBMuovi_configure_device(w, params, ok, rd)
    ELSE IF IsSessantaquattro(w.self._device_type)
    THEN OTBSessantaquattro_configure_device(w, params, ok, rd)
    ELSE OTBQuattrocento_configure_device(w, params)

(***************************************************************************)
(* Start and stop streaming.                                               *)
(***************************************************************************)
\* BaseDevice._start_streaming
BaseDevice_start_streaming(w) ==
    Emit([w EXCEPT !.self._is_streaming = TRUE], "stream_toggled", TRUE)

\* BaseDevice._stop_streaming
BaseDevice_stop_streaming(w) ==
    Emit([w EXCEPT !.self._is_streaming = FALSE], "stream_toggled", FALSE)

\* the command that _start_streaming derives from the stored one
StartCommand(command) == command + 1
\* the command that _stop_streaming derives from the stored one
StopCommand(command) == command - 1

\* the rest of OTBMuovi._start_streaming / _stop_streaming and of
\* OTBSessantaquattro._start_streaming / _stop_streaming, after super()
Listener_derive_and_send(w, command, ok, rd) ==
    IF IsSessantaquattro(w.self._device_type) /\ w.self._configuration_command = Absent
    THEN Raise(w, "AttributeError")
    ELSE IF w.self._configuration_command = None
    THEN w
    ELSE Listener_send_configuration_to_device(
             [w EXCEPT !.self._configuration_command = command], ok, rd)

\* bytearray item assignment of a value outside range(0, 256) raises ValueError
ByteOutOfRange(value) == value < 0 \/ value > 255

\* a start or stop that writes the new byte 0 with the checksum left as it was
OTBQuattrocento_derive_keep_checksum(w, byte0, ok) ==
    IF byte0 < 0 \/ byte0 > 255
    THEN Raise(w, "ValueError")
    ELSE OTBQuattrocento_send_configuration_to_device(
             [w EXCEPT !.self._configuration_command[1] = byte0], ok)

\* the rest of OTBQuattrocento._start_streaming / _stop_streaming, after
\* super(): byte 0 of the command, the checksum, the write
OTBQuattrocento_derive_and_send(w, byte0, ok) ==
    IF ByteOutOfRange(byte0)
    THEN Raise(w, "ValueError")
    ELSE LET c1 == [w.self._configuration_command EXCEPT ![1] = byte0]
             c2 == [c1 EXCEPT ![QuattrocentoCommandLength] =
                                  _crc_check(c1, QuattrocentoCommandLength - 1)]
         IN  OTBQuattrocento_send_configuration_to_device(
                 [w EXCEPT !.self._configuration_command = c2], ok)

_start_streaming(w, ok, rd) ==
    LET w1 == BaseDevice_start_streaming(w)
    IN  IF IsListener(w.self._device_type)
        THEN Listener_derive_and_send(
                 w1, StartCommand(w1.self._configuration_command), ok, rd)
        ELSE LET w2 == OTBQuattrocento_derive_and_send(
                           w1, StartCommand(w1.self._configuration_command[1]), ok)
             IN  IF Raised(w2) THEN w2
                 ELSE Emit([w2 EXCEPT !.self._is_streaming = TRUE],
                           "stream_toggled", TRUE)

_stop_streaming(w, ok, rd) ==
    LET w1 == BaseDevice_stop_streaming(w)
    IN  IF IsListener(w.self._device_type)
        THEN Listener_derive_and_send(
                 w1, StopCommand(w1.self._configuration_command), ok, rd)
        ELSE OTBQuattrocento_derive_and_send(
                 w1, StopCommand(w1.self._configuration_command[1]), ok)

\* BaseDevice.toggle_streaming
toggle_streaming(w, ok, rd) ==
    IF w.self._is_streaming
    THEN LET w1 == _stop_streaming(w, ok, rd)
         IN  IF Raised(w1) THEN w1 ELSE clear_socket(clear_socket(w1))
    ELSE LET w1 == _start_streaming(w, ok, rd)
         IN  IF Raised(w1) THEN w1 ELSE clear_socket(w1)

\* a toggle_connection that disconnects without stopping the stream first
toggle_connection_without_stop(w, settings, ok, wok, rd) ==
    LET w1 == [w EXCEPT !.self._connection_settings = settings]
    IN  IF w1.self.is_connected
        THEN _disconnect_from_device(w1, rd)
        ELSE _connect_to_device(w1, ok, rd)

\* BaseDevice.toggle_connection. ok: the outcome of listen or of the dial;
\* wok: the outcome of the write of the stop command.
toggle_connection(w, settings, ok, wok, rd) ==
    LET w1 == [w EXCEPT !.self._connection_settings = settings]
    IN  IF w1.self.is_connected
        THEN LET w2 == IF w1.self._is_streaming
                       THEN toggle_streaming(w1, wok, rd)
                       ELSE w1
             IN  IF Raised(w2) THEN w2 ELSE _disconnect_from_device(w2, rd)
        ELSE _connect_to_device(w1, ok, rd)

(***************************************************************************)
(* Address validation.                                                     *)
(***************************************************************************)
\* one alternative group of the pattern of check_valid_ip:
\* [0-9]|[1-9][0-9]|1[0-9]{2}|2[0-4][0-9]|25[0-5]
OctetMatches(d) ==
    \/ Len(d) = 1
    \/ Len(d) = 2 /\ d[1] \in 1..9
    \/ Len(d) = 3 /\ d[1] = 1
    \/ Len(d) = 3 /\ d[1] = 2 /\ d[2] \in 0..4
    \/ Len(d) = 3 /\ d[1] = 2 /\ d[2] = 5 /\ d[3] \in 0..5

\* BaseDevice.check_valid_ip
check_valid_ip(ip_address) ==
    /\ Len(ip_address) = 4
    /\ \A i \in 1..4 : OctetMatches(ip_address[i])

\* BaseDevice.check_valid_port
check_valid_port(port) == 0 <= port /\ port <= 65535

(***************************************************************************)
(* Sample Decoder.                                                         *)
(***************************************************************************)
Min(a, b) == IF a < b THEN a ELSE b

\* Python's data[start:end] of a 0-based byte string (the slice is clamped)
Slice(data, start, end) == SubSeq(data, Min(start, Len(data)) + 1, Min(end, Len(data)))

\* the two bytes read as an unsigned number
_decode_uint16(bytes_value) == bytes_value[1] * 256 + bytes_value[2]

\* OTBMuovi._decode_int16, OTBSessantaquattro._decode_int16
_decode_int16(bytes_value) ==
    LET value == bytes_value[1] * 256 + bytes_value[2]
    IN  IF value >= 32768 THEN value - 65536 ELSE value

\* OTBMuovi._decode_int24, OTBSessantaquattro._decode_int24
_decode_int24(bytes_value) ==
    LET value == bytes_value[1] * 65536 + bytes_value[2] * 256 + bytes_value[3]
    IN  IF value >= 8388608 THEN value - 16777216 ELSE value

\* the loop of _bytes_to_integers from channel_index on. width: the bytes
\* that the decoder chosen by the working / resolution mode reads (2 or 3).
RECURSIVE BytesToIntegersFrom(_, _, _, _, _)
BytesToIntegersFrom(data, bytes_per_sample, width, channel_index, channel_values) ==
    IF channel_index >= Len(data) \div 2
    THEN [exc |-> "none", values |-> channel_values]
    ELSE LET channel == Slice(data, channel_index * bytes_per_sample,
                              (channel_index + 1) * bytes_per_sample)
         IN  IF Len(channel) < width
             THEN [exc |-> "IndexError", values |-> channel_values]
             ELSE BytesToIntegersFrom(
                      data, bytes_per_sample, width, channel_index + 1,
                      Append(channel_values,
                             IF width = 2 THEN _decode_int16(channel)
                             ELSE _decode_int24(channel)))

\* OTBMuovi._bytes_to_integers, OTBSessantaquattro._bytes_to_integers
_bytes_to_integers(data, bytes_per_sample, width) ==
    BytesToIntegersFrom(data, bytes_per_sample, width, 0, <<>>)

\* decoded_data.reshape(number_of_channels, -1, order="F"): rows are channels
Reshape(values, number_of_channels) ==
    [c \in 1..number_of_channels |->
        [t \in 1..(Len(values) \div number_of_channels) |->
            values[(t - 1) * number_of_channels + c]]]

\* the decoding of OTBMuovi._process_data / OTBSessantaquattro._process_data:
\* the matrix that data_available carries, or the exception raised
DecodeFrame(data, number_of_channels, bytes_per_sample, width) ==
    LET decoded == _bytes_to_integers(data, bytes_per_sample, width)
    IN  IF decoded.exc # "none"
        THEN [exc |-> decoded.exc, matrix |-> <<>>]
        ELSE IF Len(decoded.values) % number_of_channels # 0
        THEN [exc |-> "ValueError", matrix |-> <<>>]
        ELSE [exc |-> "none", matrix |-> Reshape(decoded.values, number_of_channels)]

\* whether _bytes_to_integers raises IndexError on a frame of len bytes: the
\* slice of the last channel_index, len // 2 - 1, which is the shortest, is
\* shorter than the decoder reads
DecodeRaisesOnLength(len, bytes_per_sample, width) ==
    /\ len \div 2 > 0
    /\ LET channel_index == len \div 2 - 1
       IN  Min((channel_index + 1) * bytes_per_sample, len)
               - Min(channel_index * bytes_per_sample, len) < width

\* the bytes read by the decoder that _bytes_to_integers selects: Muovi by
\* the working mode (no case matches NONE), Sessantaquattro by the resolution
DecoderWidth(s) ==
    IF IsMuovi(s._device_type)
    THEN (IF s._working_mode = MuoviWorkingMode.EMG THEN 2
          ELSE IF s._working_mode = MuoviWorkingMode.EEG THEN 3 ELSE 0)
    ELSE (IF s._resolution_mode = SessantaquattroResolutionMode.LOW THEN 2 ELSE 3)

(***************************************************************************)
(* Frame Reassembler.                                                      *)
(***************************************************************************)
\* OTBMuovi._process_data, OTBSessantaquattro._process_data on a frame of
\* _buffer_size bytes: the three data signals, counted in out.frames
Listener_process_data(w) ==
    LET s == w.self
        len == s._buffer_size
    IN  IF DecoderWidth(s) = 0
        THEN Raise(w, "UnboundLocalError")
        ELSE IF DecodeRaisesOnLength(len, s._bytes_per_sample, DecoderWidth(s))
        THEN Raise(w, "IndexError")
        ELSE IF (len \div 2) % s._number_of_channels # 0
        THEN Raise(w, "ValueError")
        ELSE [w EXCEPT !.out.frames = @ + 1]

\* OTBQuattrocento._process_data
OTBQuattrocento_process_data(w) ==
    IF w.self._number_of_streamed_channels = None
    THEN Raise(w, "TypeError")
    ELSE IF (w.self._buffer_size \div 2) % w.self._number_of_streamed_channels # 0
    THEN Raise(w, "ValueError")
    ELSE [w EXCEPT !.out.frames = @ + 1]

_process_data(w) ==
    IF IsListener(w.self._device_type)
    THEN Listener_process_data(w)
    ELSE OTBQuattrocento_process_data(w)

\* The bytes of the stream by their positions: hist.rx mirrors the socket and
\* _received_bytes as runs <<a, b>> of the stream positions a .. b - 1, in
\* the order the bytearray holds them. pos is the position of the first
\* unread byte of the socket, framed the number of bytes handed to the
\* decoder, in_order whether every frame so far was the next _buffer_size
\* positions of the stream.
\* bytearray.extend(packet), the packet being the positions a .. b - 1
ExtendRuns(buf, a, b) ==
    IF a = b THEN buf
    ELSE IF Len(buf) > 0 /\ buf[Len(buf)][2] = a
    THEN [buf EXCEPT ![Len(buf)] = <<buf[Len(buf)][1], b>>]
    ELSE Append(buf, <<a, b>>)

\* the slice assignment left out: _received_bytes keeps the frame
KeepFront(buf, n) == buf

\* _received_bytes[n:]
RECURSIVE DropFront(_, _)
DropFront(buf, n) ==
    IF n = 0 \/ buf = <<>> THEN buf
    ELSE LET a == buf[1][1]
             b == buf[1][2]
         IN  IF b - a > n THEN <<<<a + n, b>>>> \o Tail(buf)
             ELSE DropFront(Tail(buf), n - (b - a))

\* _received_bytes[:n] is the n positions of the stream from `from` on
FrontIs(buf, from, n) ==
    /\ Len(buf) > 0
    /\ buf[1][1] = from
    /\ buf[1][2] - buf[1][1] >= n

\* whether the read loop goes on: bytesAvailable() > _buffer_size
MoreToRead(available, buffer_size) == available > buffer_size

\* the inner loop of _read_data: while len(_received_bytes) >= _buffer_size
RECURSIVE ProcessLoop(_)
ProcessLoop(w) ==
    IF w.self._received_bytes >= w.self._buffer_size
    THEN LET w1 == _process_data(w)
         IN  IF Raised(w1) THEN w1
             ELSE ProcessLoop(
                      [w1 EXCEPT !.self._received_bytes = @ - w.self._buffer_size,
                                 !.hist.rx.in_order =
                                     @ /\ FrontIs(w.hist.rx.buf, w.hist.rx.framed,
                                                  w.self._buffer_size),
                                 !.hist.rx.framed = @ + w.self._buffer_size,
                                 !.hist.rx.buf = DropFront(@, w.self._buffer_size)])
    ELSE w

\* the outer loop of _read_data. read_all: the packet is readAll()
\* (Quattrocento) and not read(_buffer_size).
RECURSIVE ReadLoop(_, _)
ReadLoop(w, read_all) ==
    IF MoreToRead(w.net.sock, w.self._buffer_size)
    THEN LET packet == IF read_all THEN w.net.sock ELSE w.self._buffer_size
             w1 == ProcessLoop(
                       [w EXCEPT !.net.sock = @ - packet,
                                 !.self._received_bytes = @ + packet,
                                 !.hist.rx.pos = @ + packet,
                                 !.hist.rx.buf = ExtendRuns(@, w.hist.rx.pos,
                                                            w.hist.rx.pos + packet)])
         IN  IF Raised(w1) THEN w1 ELSE ReadLoop(w1, read_all)
    ELSE w

\* the size of the reply that OTBSessantaquattro._read_data reads while the
\* device is not streaming
SessantaquattroConfigReplySize == 13

\* OTBMuovi._read_data, OTBSessantaquattro._read_data, OTBQuattrocento._read_data
_read_data(w) ==
    LET s == w.self
    IN  IF IsSessantaquattro(s._device_type) /\ s._client_socket = "None"
        THEN w
        ELSE IF ~s._is_streaming
        THEN (IF IsSessantaquattro(s._device_type)
              THEN [w EXCEPT !.net.sock = @ - Min(@, SessantaquattroConfigReplySize)]
              ELSE clear_socket(w))
        ELSE IF IsMuovi(s._device_type) /\ s._client_socket = "None"
        THEN Raise(w, "AttributeError")
        ELSE IF s._buffer_size = None
        THEN Raise(w, "TypeError")
        ELSE ReadLoop(w, IsQuattrocento(s._device_type))

(***************************************************************************)
(* Inputs of the handlers.                                                 *)
(***************************************************************************)
\* the settings given to toggle_connection: none, or an address to listen on
\* or to dial
ConnectionSettings ==
    {NoSettings,
     [host |-> <<<<1, 9, 2>>, <<1, 6, 8>>, <<7, 6>>, <<1>>>>, port |-> 54320]}

\* settings that are no address: a host part above 255, a port above 65535
InvalidSettings ==
    {[host |-> <<<<2, 5, 6>>, <<1, 6, 8>>, <<7, 6>>, <<1>>>>, port |-> 54320],
     [host |-> <<<<1, 9, 2>>, <<1, 6, 8>>, <<7, 6>>, <<1>>>>, port |-> 65536]}

MuoviParams ==
    {[_working_mode |-> MuoviWorkingMode.EMG,
      _detection_mode |-> MuoviDetectionMode.MONOPOLAR_GAIN_8],
     [_working_mode |-> MuoviWorkingMode.EEG,
      _detection_mode |-> MuoviDetectionMode.MONOPOLAR_GAIN_4],
     [_working_mode |-> MuoviWorkingMode.NONE],
     [_no_such_mode |-> 1]}

SessantaquattroParams ==
    {[_detection_mode |-> SessantaquattroDetectionMode.MONOPOLAR,
      _channel_mode |-> SessantaquattroChannelMode.LOW,
      _sampling_frequency_mode |-> SessantaquattroSamplingFrequencyMode.LOW,
      _resolution_mode |-> SessantaquattroResolutionMode.LOW,
      _gain_mode |-> SessantaquattroGainMode.LOW,
      _trigger_mode |-> SessantaquattroTriggerMode.DEFAULT,
      _recording_mode |-> SessantaquattroRecordingMode.STOP],
     [_detection_mode |-> SessantaquattroDetectionMode.BIPOLAR,
      _channel_mode |-> SessantaquattroChannelMode.MEDIUM,
      _sampling_frequency_mode |-> SessantaquattroSamplingFrequencyMode.MEDIUM,
      _resolution_mode |-> SessantaquattroResolutionMode.HIGH,
      _gain_mode |-> SessantaquattroGainMode.DEFAULT,
      _trigger_mode |-> SessantaquattroTriggerMode.DEFAULT,
      _recording_mode |-> SessantaquattroRecordingMode.STOP],
     [_sampling_frequency_mode |-> SessantaquattroSamplingFrequencyMode.HIGH,
      _gain_mode |-> SessantaquattroGainMode.NONE],
     [_no_such_mode |-> 1]}

QuattrocentoParams == {[_no_such_mode |-> 1]}

ParamsOf(t) ==
    IF IsMuovi(t) THEN MuoviParams
    ELSE IF IsSessantaquattro(t) THEN SessantaquattroParams
    ELSE QuattrocentoParams

\* sizes of the chunks that the transport delivers: around the threshold
\* while frames are read, around the size of the configuration reply otherwise
ChunkSizes(s) ==
    IF s._is_streaming /\ s._buffer_size # None
    THEN {s._buffer_size - 1, s._buffer_size, s._buffer_size + 1}
    ELSE {SessantaquattroConfigReplySize, SessantaquattroConfigReplySize + 1}

\* the most bytes that the model lets the transport or the FrameBuffer hold
MaxBytes(s) ==
    IF s._is_streaming /\ s._buffer_size # None
    THEN MaxFrames * s._buffer_size
    ELSE SessantaquattroConfigReplySize + MaxFrames

\* the socket that readyRead comes from is open, its slot connected
CanReceive ==
    IF IsListener(self._device_type)
    THEN self._client_socket = "open"
    ELSE self._interface = "connected" /\ net.slot

(***************************************************************************)
(* History variables: whether configure_device recomputed the profile      *)
(* during the current connection (profile_fresh); the bytes delivered and  *)
(* the frames emitted since a call last left the transport with nothing    *)
(* unread (sess_bytes, sess_frames), and whether that call started         *)
(* streaming on a configured, open connection with nothing buffered, no    *)
(* other call having come since (sess_valid); the command that            *)
(* _configure_command computed last (configured); the positions in the     *)
(* stream of the bytes read and framed in the session that sess_valid      *)
(* marks (rx).                                                             *)
(***************************************************************************)
\* nothing received, nothing framed
RxIdle == [pos |-> 0, buf |-> <<>>, framed |-> 0, in_order |-> TRUE]

NoSession(r) ==
    IF r.net.sock = 0
    THEN [r.hist EXCEPT !.sess_valid = FALSE, !.sess_bytes = 0, !.sess_frames = 0,
                        !.rx = RxIdle]
    ELSE [r.hist EXCEPT !.sess_valid = FALSE, !.rx = RxIdle]

SessionAfterToggle(r) ==
    IF /\ ~Raised(r)
       /\ r.self._is_streaming
       /\ r.self._buffer_size # None
       /\ r.net.sock = 0
       /\ r.self._received_bytes = 0
       /\ IF IsListener(r.self._device_type)
          THEN r.self._client_socket = "open"
          ELSE r.self._interface = "connected"
    THEN [r.hist EXCEPT !.sess_valid = TRUE, !.sess_bytes = 0, !.sess_frames = 0,
                        !.rx = RxIdle]
    ELSE NoSession(r)

SessionAfterRead(r, k) ==
    [r.hist EXCEPT !.sess_bytes = @ + k, !.sess_frames = @ + r.out.frames,
                   !.rx = IF r.hist.sess_valid THEN @ ELSE RxIdle]

(***************************************************************************)
(* The state machine.                                                      *)
(***************************************************************************)
NoHistory ==
    [profile_fresh |-> FALSE, sess_valid |-> FALSE, sess_bytes |-> 0,
     sess_frames |-> 0, configured |-> None, rx |-> RxIdle]

DecoderIdle ==
    [channels |-> 0, samples |-> 0, bytes_per_sample |-> 0, frame |-> <<>>,
     done |-> FALSE, exc |-> "none", matrix |-> <<>>]

Init ==
    /\ \E t \in DeviceType : self = NewDevice(t)
    /\ net = [sock |-> 0, orphans |-> 0, slot |-> FALSE]
    /\ out = NoOutput("__init__")
    /\ hist = NoHistory
    /\ dec = DecoderIdle

Commit(r) ==
    /\ self' = r.self
    /\ net' = r.net
    /\ out' = r.out
    /\ hist' = r.hist
    /\ UNCHANGED dec

\* whether listen can succeed: no server of this device holds the address
AddressFree == self._interface # "listening" /\ net.orphans = 0

\* the collaborator calls toggle_connection(settings), settings being one
\* of S
ToggleConnectionWith(S) ==
    \E settings \in S, ok, wok, rd \in BOOLEAN :
        /\ IsListener(self._device_type) /\ ok => AddressFree
        /\ IsQuattrocento(self._device_type) /\ self._interface = "connected" => ok
        /\ LET r == toggle_connection(Begin("toggle_connection"), settings, ok, wok, rd)
           IN  Commit([r EXCEPT !.hist = NoSession(r)])

\* the collaborator calls toggle_connection(settings)
ToggleConnection == ToggleConnectionWith(ConnectionSettings)

\* the hardware connects to the listening server: newConnection runs _make_request
PeerConnects ==
    /\ IsListener(self._device_type)
    /\ self._interface = "listening"
    /\ LET r == Listener_make_request(Begin("_make_request"), TRUE)
       IN  Commit([r EXCEPT !.hist = NoSession(r)])

\* the hardware connects to a server that _interface no longer holds
PeerConnectsOrphan ==
    /\ IsListener(self._device_type)
    /\ net.orphans > 0
    /\ LET r == Listener_make_request(Begin("_make_request"), FALSE)
       IN  Commit([r EXCEPT !.hist = NoSession(r)])

\* the connection timeout timer fires (single shot): _disconnect_from_device
Timeout ==
    \E rd \in BOOLEAN :
        /\ self._connection_timeout_timer = "active"
        /\ LET b == Begin("timeout")
               r == _disconnect_from_device(
                        [b EXCEPT !.self._connection_timeout_timer = "inactive"], rd)
           IN  Commit([r EXCEPT !.hist = NoSession(r)])

\* the collaborator calls configure_device(params)
ConfigureDevice ==
    \E params \in ParamsOf(self._device_type), ok, rd \in BOOLEAN :
        LET r == configure_device(Begin("configure_device"), params, ok, rd)
        IN  Commit([r EXCEPT !.hist = NoSession(r)])

\* the collaborator calls toggle_streaming()
ToggleStreaming ==
    \E ok, rd \in BOOLEAN :
        LET r == toggle_streaming(Begin("toggle_streaming"), ok, rd)
        IN  Commit([r EXCEPT !.hist = SessionAfterToggle(r)])

\* a chunk of k bytes arrives: readyRead runs _read_data
BytesAvailable ==
    \E k \in ChunkSizes(self) :
        /\ CanReceive
        /\ net.sock + k <= MaxBytes(self)
        /\ self._received_bytes <= MaxBytes(self)
        /\ hist.sess_bytes + k <= MaxBytes(self)
        /\ LET b == Begin("_read_data")
               r == _read_data([b EXCEPT !.net.sock = @ + k])
           IN  Commit([r EXCEPT !.hist = SessionAfterRead(r, k)])

Next ==
    \/ ToggleConnection
    \/ PeerConnects
    \/ PeerConnectsOrphan
    \/ Timeout
    \/ ConfigureDevice
    \/ ToggleStreaming
    \/ BytesAvailable

Spec == Init /\ [][Next]_vars

(***************************************************************************)
(* The connection lifecycle on its own, with settings that are no address  *)
(* among the inputs of toggle_connection.                                  *)
(***************************************************************************)
ToggleConnectionAnySettings ==
    ToggleConnectionWith(ConnectionSettings \cup InvalidSettings)

NextConnect ==
    \/ ToggleConnectionAnySettings
    \/ PeerConnects
    \/ PeerConnectsOrphan
    \/ Timeout

SpecConnect == Init /\ [][NextConnect]_vars

\* the event loop runs the slot of a timer that is active: the single-shot
\* timer started by _connect_to_device expires after its interval
SpecConnectLive == SpecConnect /\ WF_vars(Timeout)

(***************************************************************************)
(* The Mindrove device (devices/other_devices/mindrove.py). It talks to    *)
(* the board through BoardShim calls, each of which may raise, and polls   *)
(* the board with a timer of its own.                                      *)
(***************************************************************************)
MaxToggles == 3

Mindrove == "Mindrove"

\* Mindrove.__init__. Line 29 names DeviceType.Mindrove, a member that the
\* DeviceType enumeration of constants/devices/core does not list; the
\* object is modelled as the constructor writes it.
Mindrove_init ==
    Extend(BaseDevice_init(Mindrove), [_timer |-> "inactive"])

\* Mindrove._connect_to_device. ok: board_shim.prepare_session() returns
Mindrove_connect_to_device(w, ok) ==
    IF ok
    THEN LET w1 == Emit([w EXCEPT !.self.is_connected = TRUE], "connect_toggled", TRUE)
             w2 == Emit([w1 EXCEPT !.self._is_configured = TRUE],
                        "configure_toggled", TRUE)
         IN  Return(w2, PyTrue)
    ELSE Return([w EXCEPT !.self.is_connected = FALSE], PyFalse)

\* Mindrove._disconnect_from_device. ok: board_shim.release_session() returns
Mindrove_disconnect_from_device(w, ok) ==
    IF ok
    THEN Return(Emit([w EXCEPT !.self.is_connected = FALSE], "connect_toggled", FALSE),
                PyTrue)
    ELSE Return(w, PyFalse)

\* Mindrove.configure_device: no attribute of the object is named by a
\* parameter of the front end, so _update_configuration_parameters only prints
Mindrove_configure_device(w) == Emit(w, "configure_toggled", TRUE)

\* Mindrove._start_streaming. cok: prepare_session returns; ok:
\* board_shim.start_stream() returns
Mindrove_start_streaming(w, cok, ok) ==
    LET w1 == IF ~w.self.is_connected THEN Mindrove_connect_to_device(w, cok) ELSE w
    IN  IF ~w.self.is_connected /\ w1.out.ret # PyTrue
        THEN Return(w1, PyNone)
        ELSE IF ok
        THEN Return(BaseDevice_start_streaming(
                        [w1 EXCEPT !.self._is_streaming = TRUE,
                                   !.self._timer = "active"]), PyNone)
        ELSE Return(w1, PyNone)

\* Mindrove._stop_streaming. ok: board_shim.stop_stream() returns
Mindrove_stop_streaming(w, ok) ==
    IF w.self._is_streaming
    THEN LET w1 == [w EXCEPT !.self._timer = "inactive"]
         IN  IF ok
             THEN BaseDevice_stop_streaming([w1 EXCEPT !.self._is_streaming = FALSE])
             ELSE w1
    ELSE w

\* Mindrove.toggle_streaming
Mindrove_toggle_streaming(w, cok, ok) ==
    IF w.self._is_streaming
    THEN Mindrove_stop_streaming(w, ok)
    ELSE Mindrove_start_streaming(w, cok, ok)

\* BaseDevice.toggle_connection, with the methods of Mindrove. sok: the
\* stop_stream of the toggle_streaming it calls returns
Mindrove_toggle_connection(w, settings, ok, sok) ==
    LET w1 == [w EXCEPT !.self._connection_settings = settings]
    IN  IF w1.self.is_connected
        THEN LET w2 == IF w1.self._is_streaming
                       THEN Mindrove_toggle_streaming(w1, TRUE, sok)
                       ELSE w1
             IN  Mindrove_disconnect_from_device(w2, ok)
        ELSE Mindrove_connect_to_device(w1, ok)

\* Mindrove._read_data, run by _timer. ok: get_current_board_data and the
\* processing return; the two data signals are then emitted
Mindrove_read_data(w, ok) ==
    IF ~w.self._is_streaming
    THEN w
    ELSE IF ok THEN [w EXCEPT !.out.frames = @ + 1] ELSE w

\* connected and configured, not streaming
ConfiguredIdle(s) == s.is_connected /\ s._is_configured /\ ~s._is_streaming

\* the value of the last stream_toggled of the handler, or last if it
\* emitted none
LastStreamToggled(o, last) ==
    IF \E i \in 1..Len(o.sig) : o.sig[i][1] = "stream_toggled"
    THEN LET i == CHOOSE i \in 1..Len(o.sig) :
                      /\ o.sig[i][1] = "stream_toggled"
                      /\ \A j \in (i + 1)..Len(o.sig) : o.sig[j][1] # "stream_toggled"
         IN  IF o.sig[i][2] THEN "True" ELSE "False"
    ELSE last

\* toggles: the number of toggle_streaming calls made, with no other
\* operation in between, since the session was configured and not streaming
\* (Absent: it was not, or more than MaxToggles calls were made); last: the
\* value of the last stream_toggled of those calls
ToggleHistory == Extend(NoHistory, [toggles |-> Absent, last |-> "none"])

AfterOther(r) ==
    [r.hist EXCEPT !.toggles = IF ConfiguredIdle(r.self) THEN 0 ELSE Absent,
                   !.last = "none",
                   !.sess_frames = 0]

AfterToggle(r) ==
    IF r.hist.toggles # Absent /\ r.hist.toggles < MaxToggles
    THEN [r.hist EXCEPT !.toggles = @ + 1, !.last = LastStreamToggled(r.out, @),
                        !.sess_frames = 0]
    ELSE AfterOther(r)

InitMindrove ==
    /\ self = Mindrove_init
    /\ net = [sock |-> 0, orphans |-> 0, slot |-> FALSE]
    /\ out = NoOutput("__init__")
    /\ hist = ToggleHistory
    /\ dec = DecoderIdle

MindroveToggleConnection ==
    \E settings \in ConnectionSettings, ok, sok \in BOOLEAN :
        LET r == Mindrove_toggle_connection(Begin("toggle_connection"), settings, ok, sok)
        IN  Commit([r EXCEPT !.hist = AfterOther(r)])

MindroveConfigureDevice ==
    LET r == Mindrove_configure_device(Begin("configure_device"))
    IN  Commit([r EXCEPT !.hist = AfterOther(r)])

MindroveToggleStreaming ==
    \E cok, ok \in BOOLEAN :
        LET r == Mindrove_toggle_streaming(Begin("toggle_streaming"), cok, ok)
        IN  Commit([r EXCEPT !.hist = AfterToggle(r)])

\* _timer fires: _read_data. It is no call of the collaborator: the count
\* of toggle_streaming calls goes on; sess_frames counts the matrices
\* emitted since the last call
MindrovePoll ==
    \E ok \in BOOLEAN :
        /\ self._timer = "active"
        /\ hist.sess_frames < MaxFrames
        /\ LET r == Mindrove_read_data(Begin("_read_data"), ok)
           IN  Commit([r EXCEPT !.hist.sess_frames = @ + r.out.frames])

NextMindrove ==
    \/ MindroveToggleConnection
    \/ MindroveConfigureDevice
    \/ MindroveToggleStreaming
    \/ MindrovePoll

SpecMindrove == InitMindrove /\ [][NextMindrove]_vars

(***************************************************************************)
(* The Sample Decoder on its own: one frame of the size that the profile   *)
(* gives, channels * samples * bytes_per_sample bytes, is decoded as       *)
(* _process_data decodes it.                                               *)
(***************************************************************************)
\* the samples that a frame is made of: the extremes of the two's-complement
\* range, and values whose bytes differ from one another
SampleBytes(bytes_per_sample) ==
    IF bytes_per_sample = 2
    THEN {<<1, 2>>, <<127, 255>>, <<128, 0>>, <<255, 255>>}
    ELSE {<<1, 2, 3>>, <<127, 255, 255>>, <<128, 0, 0>>, <<255, 255, 255>>}

\* the byte string made of the samples g[1], g[2], ... one after the other
RECURSIVE Concat(_, _)
Concat(g, n) == IF n = 0 THEN <<>> ELSE Concat(g, n - 1) \o g[n]

InitDecode ==
    /\ self = NewDevice(OTB_MUOVI)
    /\ net = [sock |-> 0, orphans |-> 0, slot |-> FALSE]
    /\ out = NoOutput("__init__")
    /\ hist = NoHistory
    /\ \E channels \in 1..MaxChannels, samples \in 1..MaxSamples,
          bytes_per_sample \in {2, 3} :
          \E g \in [1..(channels * samples) -> SampleBytes(bytes_per_sample)] :
              dec = [DecoderIdle EXCEPT !.channels = channels,
                                        !.samples = samples,
                                        !.bytes_per_sample = bytes_per_sample,
                                        !.frame = Concat(g, channels * samples)]

\* _process_data decodes the frame: _bytes_to_integers, then the reshape
Decode ==
    /\ ~dec.done
    /\ LET r == DecodeFrame(dec.frame, dec.channels, dec.bytes_per_sample,
                            dec.bytes_per_sample)
       IN  dec' = [dec EXCEPT !.done = TRUE, !.exc = r.exc, !.matrix = r.matrix]
    /\ UNCHANGED <<self, net, out, hist>>

NextDecode == Decode

SpecDecode == InitDecode /\ [][NextDecode]_vars

(***************************************************************************)
(* The checksum on its own: _crc_check of a message of bytes.              *)
(***************************************************************************)
MaxMessage == 3

\* bytes with the low bit, the high bit, the bits of 140, all bits, no bit
CrcBytes == {0, 1, 128, 140, 255}

\* the 39 bytes of a command that is all zero
ZeroMessage == [i \in 1..(QuattrocentoCommandLength - 1) |-> 0]

InitCrc ==
    /\ self = NewDevice(OTB_QUATTROCENTO)
    /\ net = [sock |-> 0, orphans |-> 0, slot |-> FALSE]
    /\ out = NoOutput("__init__")
    /\ hist = NoHistory
    /\ dec = [message |-> <<>>, done |-> FALSE, crc |-> 0]

\* one more byte of the message
CrcAppend ==
    \E b \in CrcBytes :
        /\ ~dec.done
        /\ Len(dec.message) < MaxMessage
        /\ dec' = [dec EXCEPT !.message = Append(@, b)]
        /\ UNCHANGED <<self, net, out, hist>>

\* the message is the all-zero one
CrcZeroMessage ==
    /\ ~dec.done
    /\ dec.message = <<>>
    /\ dec' = [dec EXCEPT !.message = ZeroMessage]
    /\ UNCHANGED <<self, net, out, hist>>

\* self._crc_check(message, len(message))
CrcCheck ==
    /\ ~dec.done
    /\ dec' = [dec EXCEPT !.done = TRUE,
                          !.crc = _crc_check(dec.message, Len(dec.message))]
    /\ UNCHANGED <<self, net, out, hist>>

NextCrc == CrcAppend \/ CrcZeroMessage \/ CrcCheck

SpecCrc == InitCrc /\ [][NextCrc]_vars

(***************************************************************************)
(* The two decoders on their own: a value is written as big-endian         *)
(* two's-complement bytes, as the hardware sends a sample, and decoded.    *)
(***************************************************************************)
MaxSteps == 255

\* values over the whole 16-bit range, in steps that change both bytes
Int16Values ==
    {v \in {-32768 + 257 * k : k \in 0..MaxSteps} \cup {-1, 0, 1, 32767} :
        -32768 <= v /\ v <= 32767}

\* values over the whole 24-bit range, in steps that change the three bytes
Int24Values ==
    {v \in {-8388608 + 65793 * k : k \in 0..MaxSteps} \cup {-1, 0, 1, 8388607} :
        -8388608 <= v /\ v <= 8388607}

\* v as width big-endian two's-complement bytes
ToBytesSigned(v, width) ==
    LET u == IF v < 0 THEN v + Pow2(8 * width) ELSE v
    IN  [i \in 1..width |-> (u \div Pow2(8 * (width - i))) % 256]

InitRoundTrip ==
    /\ self = NewDevice(OTB_MUOVI)
    /\ net = [sock |-> 0, orphans |-> 0, slot |-> FALSE]
    /\ out = NoOutput("__init__")
    /\ hist = NoHistory
    /\ \E width \in {2, 3} :
          \E v \in (IF width = 2 THEN Int16Values ELSE Int24Values) :
              dec = [width |-> width, v |-> v, bytes |-> <<>>, done |-> FALSE,
                     value |-> 0]

\* the sample arrives as bytes
EncodeValue ==
    /\ dec.bytes = <<>>
    /\ dec' = [dec EXCEPT !.bytes = ToBytesSigned(dec.v, dec.width)]
    /\ UNCHANGED <<self, net, out, hist>>

\* self._decode_int16(channel) / self._decode_int24(channel)
DecodeValue ==
    /\ dec.bytes # <<>>
    /\ ~dec.done
    /\ dec' = [dec EXCEPT !.done = TRUE,
                          !.value = IF dec.width = 2 THEN _decode_int16(dec.bytes)
                                    ELSE _decode_int24(dec.bytes)]
    /\ UNCHANGED <<self, net, out, hist>>

NextRoundTrip == EncodeValue \/ DecodeValue

SpecRoundTrip == InitRoundTrip /\ [][NextRoundTrip]_vars

(***************************************************************************)
(* The Sessantaquattro encoder on its own: _configure_command applied to   *)
(* every ConfigurationState, the sentinel NONE included on every axis.     *)
(***************************************************************************)
\* every value of the seven mode enumerations
SessantaquattroConfigurationStates ==
    [_recording_mode : 0..2, _trigger_mode : 0..4, _gain_mode : 0..4,
     _resolution_mode : 0..2, _detection_mode : 0..8, _channel_mode : 0..4,
     _sampling_frequency_mode : 0..4]

\* the device s with the modes of the ConfigurationState m
WithModes(s, m) ==
    [k \in DOMAIN s |-> IF k \in DOMAIN m THEN m[k] ELSE s[k]]

\* the modes that the device s holds
ModesOf(s) ==
    [k \in {"_recording_mode", "_trigger_mode", "_gain_mode",
           "_resolution_mode", "_detection_mode", "_channel_mode",
           "_sampling_frequency_mode"} |-> s[k]]

InitEncode ==
    /\ self = NewDevice(OTB_SESSANTAQUATTRO)
    /\ net = [sock |-> 0, orphans |-> 0, slot |-> FALSE]
    /\ out = NoOutput("__init__")
    /\ hist = NoHistory
    /\ \E m \in SessantaquattroConfigurationStates :
          dec = [modes |-> m, done |-> FALSE, command |-> 0, after |-> m]

\* self._configure_command()
EncodeCommand ==
    /\ ~dec.done
    /\ LET r == OTBSessantaquattro_configure_command(
                    [World EXCEPT !.self = WithModes(self, dec.modes)])
       IN  dec' = [dec EXCEPT !.done = TRUE,
                              !.command = r.self._configuration_command,
                              !.after = ModesOf(r.self)]
    /\ UNCHANGED <<self, net, out, hist>>

NextEncode == EncodeCommand

SpecEncode == InitEncode /\ [][NextEncode]_vars

(***************************************************************************)
(* The Sessantaquattro with fully set configurations: channel modes        *)
(* with sampling frequency modes equal to and different from them, in      *)
(* monopolar and bipolar detection.                                        *)
(***************************************************************************)
\* pairs of a channel mode and a sampling frequency mode
ChannelAndSampling ==
    {<<SessantaquattroChannelMode.LOW, SessantaquattroSamplingFrequencyMode.LOW>>,
     <<SessantaquattroChannelMode.MEDIUM, SessantaquattroSamplingFrequencyMode.HIGH>>,
     <<SessantaquattroChannelMode.ULTRA, SessantaquattroSamplingFrequencyMode.LOW>>}

SessantaquattroFullParams ==
    {[_detection_mode |-> d,
      _channel_mode |-> cs[1],
      _sampling_frequency_mode |-> cs[2],
      _resolution_mode |-> SessantaquattroResolutionMode.LOW,
      _gain_mode |-> SessantaquattroGainMode.DEFAULT,
      _trigger_mode |-> SessantaquattroTriggerMode.DEFAULT,
      _recording_mode |-> SessantaquattroRecordingMode.STOP] :
        d \in {SessantaquattroDetectionMode.MONOPOLAR,
               SessantaquattroDetectionMode.BIPOLAR},
        cs \in ChannelAndSampling}

InitSessantaquattro ==
    /\ self = NewDevice(OTB_SESSANTAQUATTRO)
    /\ net = [sock |-> 0, orphans |-> 0, slot |-> FALSE]
    /\ out = NoOutput("__init__")
    /\ hist = NoHistory
    /\ dec = DecoderIdle

\* the collaborator calls configure_device with every mode set
ConfigureFully ==
    \E params \in SessantaquattroFullParams, ok, rd \in BOOLEAN :
        LET r == configure_device(Begin("configure_device"), params, ok, rd)
        IN  Commit([r EXCEPT !.hist = NoSession(r)])

NextSessantaquattro ==
    \/ ToggleConnection
    \/ PeerConnects
    \/ Timeout
    \/ ConfigureFully
    \/ ToggleStreaming

SpecSessantaquattro == InitSessantaquattro /\ [][NextSessantaquattro]_vars

(***************************************************************************)
(* configure_device on a newly built device, with params of one key: keys  *)
(* that name a configuration mode, keys that name another attribute of the *)
(* object, and a key that names none.                                      *)
(***************************************************************************)
\* params with one key, the values of the kind that the attribute holds
OneKeyParams ==
    {[_is_configured |-> TRUE], [_is_streaming |-> TRUE],
     [_client_socket |-> "open"], [_interface |-> "listening"],
     [_connection_timeout_timer |-> "active"]}
    \cup {[_device_type |-> t] : t \in DeviceType}
    \cup {[_buffer_size |-> v] : v \in 1..2}
    \cup {[_received_bytes |-> v] : v \in 1..2}
    \cup {[_sampling_frequency |-> v] : v \in 1..2}
    \cup {[_number_of_channels |-> v] : v \in 1..2}
    \cup {[_samples_per_frame |-> v] : v \in 1..2}
    \cup {[_bytes_per_sample |-> v] : v \in 2..3}
    \cup {[_detection_mode |-> v] : v \in 1..2}
    \cup {[_no_such_mode |-> v] : v \in 1..2}

\* an empty params dictionary
NoParams == [k \in {} |-> 0]

InitParams ==
    /\ \E t \in DeviceType : self = NewDevice(t)
    /\ net = [sock |-> 0, orphans |-> 0, slot |-> FALSE]
    /\ out = NoOutput("__init__")
    /\ hist = NoHistory
    /\ \E params \in OneKeyParams :
          dec = [params |-> params, done |-> FALSE, after |-> self]

\* configure_device(params) on the device as built
ConfigureOneKey ==
    /\ ~dec.done
    /\ \E ok, rd \in BOOLEAN :
          LET r == configure_device(Begin("configure_device"), dec.params, ok, rd)
          IN  dec' = [dec EXCEPT !.done = TRUE, !.after = r.self]
    /\ UNCHANGED <<self, net, out, hist>>

NextParams == ConfigureOneKey

SpecParams == InitParams /\ [][NextParams]_vars

(***************************************************************************)
(* The properties.                                                         *)
(***************************************************************************)
\* the transport that commands are written to is open
TransportOpen(s) ==
    IF IsListener(s._device_type)
    THEN s._client_socket = "open"
    ELSE s._interface = "connected"

\* the fields of ConfigurationState that the device class has
ModeKeys(s) ==
    DOMAIN s \cap {"_working_mode", "_detection_mode", "_sampling_frequency_mode",
                   "_channel_mode", "_resolution_mode", "_gain_mode",
                   "_trigger_mode", "_recording_mode"}

ConfigurationState(s) == [k \in ModeKeys(s) |-> s[k]]

\* the DeviceProfile and the threshold of the FrameBuffer
DeviceProfile(s) ==
    <<s._sampling_frequency, s._number_of_channels, s._number_of_biosignal_channels,
      s._number_of_auxiliary_channels, s._samples_per_frame, s._bytes_per_sample,
      s._buffer_size>>

\* some write of the handler reported failure
WriteFailed(o) == \E i \in 1..Len(o.wr) : ~o.wr[i].ok

\* C1: chunking invariance of the reassembly. When streaming was started on
\* a configured, open connection with nothing buffered, and the chunks
\* delivered since add up to exactly N thresholds (N >= 1), then N frames
\* have been emitted when the handler of the last chunk returns.
C1_ExactlyNFrames ==
    (/\ hist.sess_valid
     /\ out.op = "_read_data"
     /\ hist.sess_bytes > 0
     /\ hist.sess_bytes % self._buffer_size = 0)
    => hist.sess_frames = hist.sess_bytes \div self._buffer_size

\* C2: when a handler that started on a connected session has completed a
\* disconnect (connect_toggled(False) was emitted and the handler returned),
\* is_connected, _is_configured and _is_streaming are all false.
C2_DisconnectClearsFlags ==
    [][(/\ self.is_connected
        /\ Emitted(out', "connect_toggled", FALSE)
        /\ out'.exc = "none")
       => (~self'.is_connected /\ ~self'._is_configured /\ ~self'._is_streaming)]_vars

\* C3: a toggle_streaming call made while the session is neither configured
\* nor streaming leaves _is_streaming as it was, emits no stream_toggled and
\* writes no command.
C3_ToggleStreamingNeedsConfigured ==
    [][(/\ out'.op = "toggle_streaming"
        /\ ~self._is_configured
        /\ ~self._is_streaming)
       => (/\ self'._is_streaming = self._is_streaming
           /\ ~Emitted(out', "stream_toggled", TRUE)
           /\ ~Emitted(out', "stream_toggled", FALSE)
           /\ out'.wr = <<>>)]_vars

\* C4: a configure_device call made while the session is connected,
\* configured during this connection and streaming writes no command and
\* leaves the ConfigurationState, the DeviceProfile, the threshold, the
\* FrameBuffer and the stored command as they were.
C4_NoReconfigurationWhileStreaming ==
    [][(/\ out'.op = "configure_device"
        /\ self._is_streaming
        /\ hist.profile_fresh
        /\ self.is_connected
        /\ TransportOpen(self))
       => (/\ out'.wr = <<>>
           /\ ConfigurationState(self') = ConfigurationState(self)
           /\ DeviceProfile(self') = DeviceProfile(self)
           /\ self'._received_bytes = self._received_bytes
           /\ self'._configuration_command = self._configuration_command)]_vars

\* C5: when the write of a configuration, start or stop command to an open
\* transport reports failure, the handler ends with is_connected false and
\* connect_toggled(False) emitted, and has written once only.
C5_WriteFailureDisconnects ==
    [][(/\ out'.op \in {"configure_device", "toggle_streaming"}
        /\ TransportOpen(self)
        /\ WriteFailed(out'))
       => (/\ ~self'.is_connected
           /\ Emitted(out', "connect_toggled", FALSE)
           /\ Len(out'.wr) = 1)]_vars

\* the fields of the ConfigurationState that the profile tables are looked
\* up with (the Sessantaquattro's encoder replaces an unset trigger or
\* recording mode by the protocol default)
RequiredKeys(s) == ModeKeys(s) \ {"_trigger_mode", "_recording_mode"}

RequiredUnset(s) == \E k \in RequiredKeys(s) : s[k] = 0

\* C6: a configure_device call on a connected Muovi or Sessantaquattro that
\* is not streaming, after whose merge of params a required field is still
\* NONE, fails (with whatever exception), writes no command and leaves the
\* whole session as it was.
C6_IncompleteConfigurationRejected ==
    [][(/\ out'.op = "configure_device"
        /\ IsListener(self._device_type)
        /\ self.is_connected
        /\ self._client_socket = "open"
        /\ ~self._is_streaming
        /\ \E params \in ParamsOf(self._device_type), ok \in BOOLEAN, rd \in BOOLEAN :
               LET w == Begin("configure_device")
                   r == configure_device(w, params, ok, rd)
               IN  /\ r.self = self' /\ r.out = out' /\ r.net = net'
                   /\ RequiredUnset(_update_configuration_parameters(w, params).self))
       => (/\ out'.exc # "none"
           /\ out'.wr = <<>>
           /\ self' = self)]_vars

\* the command with its least-significant bit set, and with it clear
WithStreamingBit(command) == IF command % 2 = 0 THEN command + 1 ELSE command
WithoutStreamingBit(command) == IF command % 2 = 1 THEN command - 1 ELSE command

\* C7: every command that a toggle_streaming of a Muovi or a Sessantaquattro
\* writes is the command computed by the last configure_device with only
\* its least-significant bit set (a start) or clear (a stop).
C7_StreamingBitOnly ==
    (/\ IsListener(self._device_type)
     /\ out.op = "toggle_streaming"
     /\ hist.configured # None)
    => \A i \in 1..Len(out.wr) :
           out.wr[i].cmd = IF Emitted(out, "stream_toggled", TRUE)
                           THEN WithStreamingBit(hist.configured)
                           ELSE WithoutStreamingBit(hist.configured)

\* the big-endian two's-complement value of a byte string
RECURSIVE BigEndianUnsigned(_)
BigEndianUnsigned(bytes) ==
    IF bytes = <<>> THEN 0
    ELSE BigEndianUnsigned(SubSeq(bytes, 1, Len(bytes) - 1)) * 256 + bytes[Len(bytes)]

BigEndianSigned(bytes) ==
    LET u == BigEndianUnsigned(bytes)
    IN  IF u >= Pow2(8 * Len(bytes) - 1) THEN u - Pow2(8 * Len(bytes)) ELSE u

\* C8: the decoding of a frame of C * S * B bytes (B 2 or 3) raises nothing
\* and gives a matrix of C rows and S columns whose entry (c, s) is the
\* big-endian two's-complement value of the B bytes at offset (s * C + c) * B.
C8_DecodedMatrix ==
    dec.done =>
        /\ dec.exc = "none"
        /\ DOMAIN dec.matrix = 1..dec.channels
        /\ \A c \in 1..dec.channels :
               /\ DOMAIN dec.matrix[c] = 1..dec.samples
               /\ \A t \in 1..dec.samples :
                      LET offset == ((t - 1) * dec.channels + (c - 1)) * dec.bytes_per_sample
                      IN  dec.matrix[c][t] =
                              BigEndianSigned(SubSeq(dec.frame, offset + 1,
                                                     offset + dec.bytes_per_sample))

\* C9: configure_toggled(True) is emitted only when configure_device has
\* recomputed the profile during the current connection.
C9_ConfiguredAfterProfile ==
    Emitted(out, "configure_toggled", TRUE) => hist.profile_fresh

\* C10: after a toggle_connection of the Quattrocento that connected
\* (returned True), is_connected is true and connect_toggled(True) was
\* emitted; after one that returned False the session is disconnected.
C10_DialerConnected ==
    (IsQuattrocento(self._device_type) /\ out.op = "toggle_connection")
    => /\ out.ret = PyTrue
            => (self.is_connected /\ Emitted(out, "connect_toggled", TRUE))
       /\ out.ret = PyFalse
            => (~self.is_connected /\ self._interface = "unconnected")

C12_DataOnlyWhileStreaming ==
    [][(out'.op = "_read_data")
       => /\ out'.frames > 0 => (self._is_streaming /\ self'._is_streaming)
          /\ ~self._is_streaming
               => /\ out'.frames = 0
                  /\ self'._received_bytes = self._received_bytes
                  /\ hist'.rx.buf = <<>>
                  /\ IF IsSessantaquattro(self._device_type)
                     THEN /\ net'.sock >= net.sock
                          /\ net'.sock <= net.sock + 1
                     ELSE net'.sock = 0]_vars

\* a chunk has arrived on a configured device that is not streaming
C12_Witness ==
    /\ out.op = "_read_data"
    /\ ~self._is_streaming
    /\ self.is_connected
    /\ self._buffer_size # None
    /\ self._received_bytes = 0
    /\ hist.sess_bytes > 0

\* the handler emitted signal a, and did so before any signal b
EmittedBefore(o, a, b) ==
    \E i \in 1..Len(o.sig) :
        /\ o.sig[i] = a
        /\ \A j \in 1..Len(o.sig) : o.sig[j] = b => i < j

\* the session streams after a configure_device and a start whose commands
\* were written: the stored command is the start command of the configured one
StreamingAsConfigured(s, h) ==
    /\ s.is_connected
    /\ s._is_streaming
    /\ TransportOpen(s)
    /\ h.configured # None
    /\ ~ToBytes1Overflows(h.configured)
    /\ s._configuration_command = StartCommand(h.configured)

Flags(s) == <<s.is_connected, s._is_configured, s._is_streaming>>

\* C14: a configure_device call made while the session is Disconnected or
\* Connecting (is_connected false, no open transport) writes nothing and
\* leaves ConfigurationState, DeviceProfile, the threshold and the lifecycle
\* flags unchanged.
C14_ConfigureNeedsConnection ==
    [][(/\ out'.op = "configure_device"
        /\ ~self.is_connected
        /\ ~TransportOpen(self))
       => /\ out'.wr = <<>>
          /\ ConfigurationState(self') = ConfigurationState(self)
          /\ DeviceProfile(self') = DeviceProfile(self)
          /\ Flags(self') = Flags(self)]_vars

\* C15: a configure_device call on a connected session whose command was
\* written successfully makes the session Configured: when it returns
\* _is_configured is true and it has emitted configure_toggled(True).
C15_ConfigureMakesConfigured ==
    [][(/\ out'.op = "configure_device"
        /\ self.is_connected
        /\ out'.exc = "none"
        /\ Len(out'.wr) = 1
        /\ out'.wr[1].ok)
       => /\ self'._is_configured
          /\ Emitted(out', "configure_toggled", TRUE)]_vars

\* the settings are an address: an IPv4 dotted quad and a port of 0..65535
ValidAddress(settings) ==
    /\ check_valid_ip(settings.host)
    /\ check_valid_port(settings.port)

\* C16: a toggle_connection on a Disconnected session with settings whose
\* host is no IPv4 dotted quad or whose port is outside 0..65535 fails and
\* changes nothing: no listen or dial, no timer armed, the stored settings
\* and the rest of the session as before.
C16_InvalidAddressRejected ==
    [][(/\ out'.op = "toggle_connection"
        /\ ~self.is_connected
        /\ ~TransportOpen(self)
        /\ \E settings \in InvalidSettings, ok, wok, rd \in BOOLEAN :
               LET r == toggle_connection(Begin("toggle_connection"),
                                          settings, ok, wok, rd)
               IN  /\ r.self = self' /\ r.out = out' /\ r.net = net'
                   /\ ~ValidAddress(settings))
       => /\ out'.exc # "none"
          /\ self' = self
          /\ net' = net]_vars

\* a toggle_connection has returned from a connect attempt that did not
\* connect the session
ConnectAttemptPending ==
    /\ out.op = "toggle_connection"
    /\ out.exc = "none"
    /\ ~self.is_connected
    /\ ~Emitted(out, "connect_toggled", TRUE)
    /\ ~Emitted(out, "connect_toggled", FALSE)

\* C17: a connect attempt that has not connected the session (listen failed,
\* no peer yet, the dial failed) leads to the session being connected after
\* all, or being Disconnected with connect_toggled(False) emitted.
C17_FailedConnectReported ==
    ConnectAttemptPending
    ~> (self.is_connected \/ Emitted(out, "connect_toggled", FALSE))

\* the session waits for the hardware: not connected, and the server that
\* _interface holds is listening
Connecting(s) == ~s.is_connected /\ s._interface = "listening"

\* C18: the first accepted peer stops the connection timeout timer, and the
\* timer fires only in a session that is Connecting: never in one that is
\* connected, configured or streaming, and never in a Disconnected one.
C18_TimerOnlyWhileConnecting ==
    [][/\ (out'.op = "_make_request" /\ ~self.is_connected /\ self'.is_connected)
           => self'._connection_timeout_timer = "inactive"
       /\ (out'.op = "timeout")
           => /\ ~self.is_connected /\ ~self._is_configured /\ ~self._is_streaming
              /\ Connecting(self)]_vars

\* C19: after n toggle_streaming calls in a row from a configured session
\* that is not streaming, _is_streaming is true exactly when n is odd, and
\* the last stream_toggled of those calls carried that value.
C19_ToggleParity ==
    (hist.toggles # Absent /\ hist.toggles > 0)
    => /\ self._is_streaming <=> (hist.toggles % 2 = 1)
       /\ hist.last = (IF self._is_streaming THEN "True" ELSE "False")

\* the session is Disconnected: not connected, and its transport neither
\* listens nor is connected
Disconnected(s) ==
    IF IsListener(s._device_type)
    THEN ~s.is_connected /\ s._interface # "listening"
    ELSE s._interface # "connected"

\* the world after _disconnect_from_device in the current state
AfterDisconnect(rd) == _disconnect_from_device(Begin("_disconnect_from_device"), rd)

\* the world after toggle_connection in the current state, the write of the
\* stop command succeeding or not
AfterToggleConnection(settings, wok, rd) ==
    toggle_connection(Begin("toggle_connection"), settings, TRUE, wok, rd)

\* C20: _disconnect_from_device leaves the state of a Disconnected session
\* as it is, and a toggle_connection of a streaming session whose stop
\* write fails, which disconnects twice, ends with the same session state
\* and the same transport state as one whose stop write succeeds.
C20_DisconnectIdempotent ==
    /\ Disconnected(self)
       => \A rd \in BOOLEAN :
              /\ AfterDisconnect(rd).self = self
              /\ AfterDisconnect(rd).net = net
    /\ StreamingAsConfigured(self, hist)
       => \A settings \in ConnectionSettings, rd1, rd2 \in BOOLEAN :
              /\ AfterToggleConnection(settings, FALSE, rd1).self
                     = AfterToggleConnection(settings, TRUE, rd2).self
              /\ AfterToggleConnection(settings, FALSE, rd1).net
                     = AfterToggleConnection(settings, TRUE, rd2).net

\* a toggle_connection has run whose stop write failed: it disconnected twice
C20_Witness ==
    /\ out.op = "toggle_connection"
    /\ Len(out.wr) = 1 /\ ~out.wr[1].ok
    /\ Emitted(out, "stream_toggled", FALSE)
    /\ \E i, j \in 1..Len(out.sig) :
           i < j /\ out.sig[i] = <<"connect_toggled", FALSE>>
                 /\ out.sig[j] = <<"connect_toggled", FALSE>>
    /\ Disconnected(self)
    /\ self._client_socket = "closed"

\* the listening servers that the session created and that are still open:
\* the one _interface holds, and those it held before
OpenListeners == net.orphans + (IF self._interface = "listening" THEN 1 ELSE 0)

\* _disconnect_from_device has just run, from toggle_connection or the timer
JustDisconnected ==
    /\ out.op \in {"toggle_connection", "timeout"}
    /\ Emitted(out, "connect_toggled", FALSE)
    /\ out.exc = "none"

\* C21: a listener session has at most one listening server open, and when
\* a disconnect or a timeout has left it Disconnected, no server and no
\* client socket that it opened is open.
C21_HandlesReleased ==
    IsListener(self._device_type)
    => /\ OpenListeners <= 1
       /\ (JustDisconnected /\ Disconnected(self))
          => (OpenListeners = 0 /\ self._client_socket # "open")

\* the checksum with the steps of an iteration in the order of the
\* description: XOR of the low bits, XOR of the register with 0x8C when that
\* is 1, shift of the register and of the byte
RECURSIVE XorThenShiftByte(_, _, _)
XorThenShiftByte(crc, byte, i) ==
    IF crc \notin 0..255 \/ i = 0 THEN crc
    ELSE LET low == (crc + byte) % 2
             x == IF low = 1 THEN Xor8(crc, 140, 8) ELSE crc
         IN  XorThenShiftByte(x \div 2, byte \div 2, i - 1)

\* over the bytes of the message from the j-th on, the register being crc
RECURSIVE XorThenShift(_, _, _)
XorThenShift(message, j, crc) ==
    IF crc \in 0..255 /\ j <= Len(message)
    THEN XorThenShift(message, j + 1, XorThenShiftByte(crc, message[j], 8))
    ELSE crc

\* h XOR 0x8C for a 7-bit h: bit 7 is set, bits 3 and 2 are inverted
Flip8C(h) ==
    h + 128 + (IF (h \div 8) % 2 = 0 THEN 8 ELSE -8)
            + (IF (h \div 4) % 2 = 0 THEN 4 ELSE -4)

\* the checksum with the register shifted first and XORed with 0x8C after
RECURSIVE ShiftThenXorByte(_, _, _)
ShiftThenXorByte(crc, byte, i) ==
    IF crc \notin 0..255 \/ i = 0 THEN crc
    ELSE LET low == (crc + byte) % 2
             h == crc \div 2
         IN  ShiftThenXorByte(IF low = 1 THEN Flip8C(h) ELSE h, byte \div 2, i - 1)

\* over the bytes of the message from the j-th on, the register being crc
RECURSIVE ShiftThenXor(_, _, _)
ShiftThenXor(message, j, crc) ==
    IF crc \in 0..255 /\ j <= Len(message)
    THEN ShiftThenXor(message, j + 1, ShiftThenXorByte(crc, message[j], 8))
    ELSE crc

\* C22: _crc_check(message, n) is the bit-serial checksum that, per bit,
\* XORs the low bits, XORs the register with 0x8C when that gives 1, and
\* shifts register and byte right; it lies in 0..255, and the all-zero
\* message of 39 bytes gives one fixed value (0).
C22_CrcAsStated ==
    dec.done
    => /\ dec.crc = XorThenShift(dec.message, 1, 0)
       /\ dec.crc \in 0..255
       /\ dec.message = ZeroMessage => dec.crc = 0

\* C22, amended: per bit the register is shifted right first and XORed with
\* 0x8C after the shift when the XOR of the low bits was 1; the result
\* lies in 0..255, and the all-zero message of 39 bytes gives 0.
C22_CrcShiftThenXor ==
    dec.done
    => /\ dec.crc = ShiftThenXor(dec.message, 1, 0)
       /\ dec.crc \in 0..255
       /\ dec.message = ZeroMessage => dec.crc = 0

\* the checksum of a message on which the two orders differ was computed
C22_Witness ==
    /\ dec.done
    /\ Len(dec.message) = 2
    /\ dec.crc # 0
    /\ dec.crc # XorThenShift(dec.message, 1, 0)

\* command is 40 bytes long and its last byte is the checksum of the 39
\* bytes before it
WellFormedCommand(command) ==
    /\ Len(command) = QuattrocentoCommandLength
    /\ \A k \in 1..QuattrocentoCommandLength : command[k] \in 0..255
    /\ command[QuattrocentoCommandLength]
           = ShiftThenXor(SubSeq(command, 1, QuattrocentoCommandLength - 1), 1, 0)

\* C23: every command that OTBQuattrocento writes is 40 bytes long with
\* byte 39 the checksum of bytes 0..38 as written, and a start or stop
\* changes only byte 0, by +1 or -1 within 0..255, and byte 39.
C23_CommandWellFormed ==
    [][IsQuattrocento(self._device_type)
       => /\ \A i \in 1..Len(out'.wr) : WellFormedCommand(out'.wr[i].cmd)
          /\ (out'.op = "toggle_streaming" /\ Len(out'.wr) = 1)
             => LET old == self._configuration_command
                    new == out'.wr[1].cmd
                IN  /\ new = self'._configuration_command
                    /\ \A k \in 2..(QuattrocentoCommandLength - 1) : new[k] = old[k]
                    /\ new[1] = (IF self._is_streaming THEN old[1] - 1 ELSE old[1] + 1)
                    /\ new[1] \in 0..255]_vars

\* OTBQuattrocento has written a stop command: byte 0 is back from 1 to 0
C23_Witness ==
    /\ IsQuattrocento(self._device_type)
    /\ out.op = "toggle_streaming"
    /\ ~self._is_streaming
    /\ Len(out.wr) = 1
    /\ out.wr[1].cmd[1] = 0
    /\ out.wr[1].cmd = self._configuration_command

\* C24: a value of the 16-bit (24-bit) two's-complement range, written as 2
\* (3) big-endian bytes and decoded by _decode_int16 (_decode_int24), comes
\* back as itself.
C24_RoundTrip ==
    dec.done
    => /\ Len(dec.bytes) = dec.width
       /\ \A i \in 1..dec.width : dec.bytes[i] \in 0..255
       /\ dec.value = dec.v

\* the most negative 16-bit value has been encoded and decoded
C24_Witness ==
    /\ dec.done
    /\ dec.width = 2
    /\ dec.v = -32768
    /\ dec.bytes = <<128, 0>>

\* data[indices] of a matrix of rows rows: the rows taken, or IndexError
TakeRows(indices, rows) ==
    IF \A i \in 1..Len(indices) : indices[i] < rows
    THEN [exc |-> "none", rows |-> Len(indices)]
    ELSE [exc |-> "IndexError", rows |-> 0]

\* configure_device has computed the profile and written the command
ConfigureSucceeded(o) ==
    /\ o.op = "configure_device"
    /\ o.exc = "none"
    /\ Len(o.wr) = 1
    /\ o.wr[1].ok

IndexSet(indices) == {indices[i] : i \in 1..Len(indices)}

C26_StopDiscardsBytes ==
    [][(/\ out'.op = "toggle_streaming"
        /\ StreamingAsConfigured(self, hist)
        /\ ~self'._is_streaming)
       => /\ net'.sock = 0
          /\ self'._received_bytes \in {0, None}]_vars

\* C27: when _read_data returns in a session that streams as configured,
\* the FrameBuffer holds fewer bytes than the threshold.
C27_RemainderBelowThreshold ==
    [][(/\ out'.op = "_read_data"
        /\ StreamingAsConfigured(self, hist)
        /\ out'.exc = "none")
       => self'._received_bytes < self'._buffer_size]_vars

\* channels x samples per frame x bytes per sample of the profile in force
ProfileFrameSize(s) ==
    s._number_of_channels * s._samples_per_frame * s._bytes_per_sample

\* C28: a successful configure_device of OTBMuovi or OTBSessantaquattro
\* leaves the threshold at channels x samples_per_frame x bytes_per_sample
\* of the new profile and the FrameBuffer empty, and every frame decoded
\* later, in a session that streams as configured, has that length for the
\* profile then in force.
C28_ThresholdFollowsProfile ==
    [][IsListener(self._device_type)
       => /\ ConfigureSucceeded(out')
             => /\ self'._buffer_size = ProfileFrameSize(self')
                /\ self'._received_bytes = 0
          /\ (/\ out'.op = "_read_data"
              /\ out'.frames > 0
              /\ self._is_configured
              /\ StreamingAsConfigured(self, hist))
             => self._buffer_size = ProfileFrameSize(self)]_vars

\* the DeviceProfile fields that configure_device computes
ProfileFields(s) ==
    <<s._sampling_frequency, s._number_of_biosignal_channels,
      s._number_of_auxiliary_channels, s._number_of_channels,
      s._bytes_per_sample, s._samples_per_frame, s._buffer_size>>

\* the ConfigurationState holds a mode that is no key of a profile table
AbsentFromTables(s) ==
    IF IsMuovi(s._device_type)
    THEN \/ s._detection_mode \notin MuoviDetectionKeys
         \/ s._working_mode \notin MuoviWorkingKeys
    ELSE \/ s._detection_mode \notin SessantaquattroDetectionKeys
         \/ s._sampling_frequency_mode \notin SessantaquattroSamplingFrequencyKeys
         \/ s._resolution_mode \notin SessantaquattroResolutionKeys
         \/ s._gain_mode \notin SessantaquattroGainKeys
         \/ s._channel_mode \notin DOMAIN SESSANTAQUATTRO_SAMPLES_PER_FRAME_DICT

\* C29: a configure_device on a connected OTBMuovi or OTBSessantaquattro
\* whose modes are absent from a profile table raises, leaves every
\* DeviceProfile field as it was and writes no command.
C29_NoSilentDefault ==
    [][(/\ out'.op = "configure_device"
        /\ IsListener(self._device_type)
        /\ self.is_connected
        /\ TransportOpen(self)
        /\ AbsentFromTables(self'))
       => /\ out'.exc # "none"
          /\ ProfileFields(self') = ProfileFields(self)
          /\ out'.wr = <<>>]_vars

\* C30: OTBMuovi() is built with type OTB_MUOVI and
\* OTBMuovi(is_muovi_plus=True) with type OTB_MUOVI_PLUS, and no
\* toggle_connection, toggle_streaming, configure_device with params that name
\* configuration modes, or arrival of bytes changes the type of a device.
C30_DeviceTypeFixed ==
    /\ OTBMuovi(FALSE)._device_type = OTB_MUOVI
    /\ OTBMuovi(TRUE)._device_type = OTB_MUOVI_PLUS
    /\ self._device_type \in DeviceType
    /\ [][self'._device_type = self._device_type]_vars

\* a Muovi Plus was connected, configured and started
C30_Witness ==
    /\ self._device_type = OTB_MUOVI_PLUS
    /\ out.op = "toggle_streaming"
    /\ self.is_connected
    /\ self._is_configured
    /\ self._is_streaming
    /\ hist.configured # None

\* bits lo .. lo + width - 1 of command, by shift and mask
BitField(command, lo, width) == (command \div Pow2(lo)) % Pow2(width)

\* C31: the command of _configure_command gives back each of the seven axes
\* at its own bit range as value - 1, an axis at NONE as its protocol
\* default, with bits 0, 6 and 15 zero and nothing above bit 15; no axis
\* is left at NONE.
C31_EncoderRoundTrip ==
    dec.done
    => LET c == dec.command
           m == dec.modes
           axis(v, default) == (IF v = 0 THEN default ELSE v) - 1
       IN  /\ c \in 0..(Pow2(16) - 1)
           /\ BitField(c, 0, 1) = 0
           /\ BitField(c, 1, 1)
                  = axis(m._recording_mode, SessantaquattroRecordingMode.STOP)
           /\ BitField(c, 2, 2)
                  = axis(m._trigger_mode, SessantaquattroTriggerMode.DEFAULT)
           /\ BitField(c, 4, 2)
                  = axis(m._gain_mode, SessantaquattroGainMode.DEFAULT)
           /\ BitField(c, 6, 1) = 0
           /\ BitField(c, 7, 1)
                  = axis(m._resolution_mode, SessantaquattroResolutionMode.LOW)
           /\ BitField(c, 8, 3)
                  = axis(m._detection_mode, SessantaquattroDetectionMode.MONOPOLAR)
           /\ BitField(c, 11, 2)
                  = axis(m._channel_mode, SessantaquattroChannelMode.LOW)
           /\ BitField(c, 13, 2)
                  = axis(m._sampling_frequency_mode,
                         SessantaquattroSamplingFrequencyMode.HIGH)
           /\ BitField(c, 15, 1) = 0
           /\ \A k \in DOMAIN dec.after : dec.after[k] # 0

\* the state with every axis at NONE was encoded: only the default sampling
\* frequency HIGH sets bits
C31_Witness ==
    /\ dec.done
    /\ \A k \in DOMAIN dec.modes : dec.modes[k] = 0
    /\ dec.command = Shl(SessantaquattroSamplingFrequencyMode.HIGH - 1, 13)

\* every mode of the Sessantaquattro is set
FullySet(s) == \A k \in DOMAIN ModesOf(s) : s[k] # 0

\* C32: a configure_device, start or stop of a connected Sessantaquattro
\* with every mode set converts its command without OverflowError and
\* writes it whole: the command written is the encoded one, bits 0..15.
C32_CommandTransmitted ==
    [][(/\ out'.op \in {"configure_device", "toggle_streaming"}
        /\ self.is_connected
        /\ TransportOpen(self)
        /\ FullySet(self')
        /\ self'._configuration_command \notin {Absent, None})
       => /\ out'.exc # "OverflowError"
          /\ Len(out'.wr) = 1
          /\ out'.wr[1].cmd = self'._configuration_command]_vars

\* the biosignal channels of a channel mode: 8, 16, 32, 64, halved in
\* bipolar detection
ChannelsOfChannelMode(channel_mode, detection_mode) ==
    LET base_channels == 8 * Pow2(channel_mode - 1)
    IN  IF detection_mode = SessantaquattroDetectionMode.BIPOLAR
        THEN base_channels \div 2
        ELSE base_channels

\* C33: after a configure_device of a connected Sessantaquattro whose profile
\* lookups succeed, the biosignal channel count is that of the channel mode
\* (halved in bipolar detection) whatever the sampling frequency mode, with 4
\* auxiliary channels, and the samples per frame are those of the channel mode.
C33_ChannelLayout ==
    [][(/\ out'.op = "configure_device"
        /\ IsSessantaquattro(self._device_type)
        /\ self.is_connected
        /\ TransportOpen(self)
        /\ FullySet(self')
        /\ ~AbsentFromTables(self'))
       => /\ self'._number_of_biosignal_channels
                 = ChannelsOfChannelMode(self'._channel_mode, self'._detection_mode)
          /\ self'._number_of_auxiliary_channels = 4
          /\ self'._number_of_channels
                 = self'._number_of_biosignal_channels + 4
          /\ self'._samples_per_frame
                 = SESSANTAQUATTRO_SAMPLES_PER_FRAME_DICT[self'._channel_mode]]_vars

\* C34: in every state of a session of any device variant _is_configured
\* implies is_connected.
C34_ConfiguredImpliesConnected ==
    self._is_configured => self.is_connected

\* C35: a configure_device whose params hold a key that names no
\* configuration mode of the device leaves the session as a configure_device
\* without that key leaves it: no lifecycle flag, FrameBuffer, threshold,
\* device type, transport handle or other field takes the value of the key.
C35_OffAxisKeysIgnored ==
    (dec.done /\ DOMAIN dec.params \cap ModeKeys(self) = {})
    => dec.after = configure_device(Begin("configure_device"), NoParams, TRUE, TRUE).self

(***************************************************************************)
(* A slot of data_available that calls back into the device: the emit of   *)
(* _process_data runs the slot synchronously, inside the loops of          *)
(* _read_data, which go on with whatever the slot has left in the object.  *)
(* When the call made by the slot raises, either the slot or the binding   *)
(* keeps the exception and the emit returns (swallow), or the exception    *)
(* leaves _process_data and ends the pass.                                 *)
(***************************************************************************)
\* what the slot of data_available does on the first frame of a pass
Handlers(s) ==
    {[kind |-> "none", params |-> NoParams, swallow |-> TRUE]}
    \cup {[kind |-> "toggle_streaming", params |-> NoParams, swallow |-> sw] :
              sw \in BOOLEAN}
    \cup {[kind |-> "configure_device", params |-> q, swallow |-> sw] :
              q \in ParamsOf(s._device_type), sw \in BOOLEAN}

\* the slot runs; the transport takes what it writes
RunHandler(w, h) ==
    IF h.kind = "toggle_streaming" THEN toggle_streaming(w, TRUE, TRUE)
    ELSE configure_device(w, h.params, TRUE, TRUE)

\* the rows that _extract_biosignal_data and _extract_auxiliary_data take
LayoutOf(s) == <<s._number_of_biosignal_channels, s._number_of_auxiliary_channels>>

\* a pass of _read_data: the world, the slot still to run (pending, ran),
\* whether the emit that ran it returned, the frames emitted after it with
\* _is_streaming false
\* (late), and whether a frame was cut with one threshold and decoded or
\* split into rows with another profile (mixed)
PassStart(w, h) ==
    [w |-> w, pending |-> h, ran |-> FALSE, returned |-> FALSE, late |-> 0,
     mixed |-> FALSE]

\* the slot of data_available runs on the first frame of the pass only
SlotRuns(p) == p.pending.kind # "none" /\ ~p.ran

\* the world after the emit of data_available, w1 being the world after the
\* decoding of the frame
SlotResult(p, w1) ==
    IF SlotRuns(p) /\ ~Raised(w1) THEN RunHandler(w1, p.pending) ELSE w1

\* a slot that catches the exception of its call returns normally
AfterSwallow(p, w1, w2) ==
    IF SlotRuns(p) /\ ~Raised(w1) /\ Raised(w2) /\ p.pending.swallow
    THEN [w2 EXCEPT !.out.exc = "none"]
    ELSE w2

\* the inner loop of _read_data with the slot connected
RECURSIVE ProcessLoopReentrant(_)

\* the frame is cut off _received_bytes with the threshold in force after
\* the slot (w3), and the loop goes on
CutFrame(p, w3) ==
    IF Raised(w3)
    THEN [p EXCEPT !.w = w3, !.ran = p.ran \/ SlotRuns(p)]
    ELSE ProcessLoopReentrant(
             [w |-> [w3 EXCEPT !.self._received_bytes =
                                  IF @ - w3.self._buffer_size > 0
                                  THEN @ - w3.self._buffer_size ELSE 0],
              pending |-> p.pending,
              ran |-> p.ran \/ SlotRuns(p),
              returned |-> p.returned \/ SlotRuns(p),
              late |-> IF p.ran /\ ~p.w.self._is_streaming
                       THEN p.late + 1 ELSE p.late,
              mixed |-> \/ p.mixed
                        \/ SlotRuns(p) /\ LayoutOf(w3.self) # LayoutOf(p.w.self)
                        \/ /\ p.ran
                           /\ p.w.self._buffer_size # ProfileFrameSize(p.w.self)])

AfterSlot(p, w1, w2) == CutFrame(p, AfterSwallow(p, w1, w2))

AfterFrame(p, w1) == AfterSlot(p, w1, SlotResult(p, w1))

ProcessLoopReentrant(p) ==
    IF Raised(p.w) \/ p.w.self._received_bytes < p.w.self._buffer_size
    THEN p
    ELSE AfterFrame(p, _process_data(p.w))

\* the outer loop of OTBMuovi._read_data and OTBSessantaquattro._read_data
\* with the slot connected
RECURSIVE ReadLoopReentrant(_)
ReadLoopReentrant(p) ==
    LET w == p.w
    IN  IF ~Raised(w) /\ MoreToRead(w.net.sock, w.self._buffer_size)
        THEN ReadLoopReentrant(
                 ProcessLoopReentrant(
                     [p EXCEPT !.w.net.sock = @ - w.self._buffer_size,
                               !.w.self._received_bytes = @ + w.self._buffer_size]))
        ELSE p

\* _read_data with the slot connected: the frames of OTBQuattrocento never
\* reach a slot (its _buffer_size is never assigned), and a call that reads
\* no frame runs none
_read_data_reentrant(w, h) ==
    IF /\ IsListener(w.self._device_type)
       /\ w.self._is_streaming
       /\ w.self._client_socket # "None"
       /\ w.self._buffer_size # None
    THEN ReadLoopReentrant(PassStart(w, h))
    ELSE PassStart(_read_data(w), h)

\* no pass yet
NoPass ==
    [kind |-> "none", ran |-> FALSE, returned |-> FALSE, late |-> 0,
     mixed |-> FALSE, legal |-> FALSE, frames |-> 0]

\* the chunks that make a pass of two frames: one that the loop leaves in
\* the socket, one that starts the loop
ChunkSizesReentrant(s) ==
    IF s._is_streaming /\ s._buffer_size # None
    THEN {s._buffer_size, s._buffer_size + 1}
    ELSE {SessantaquattroConfigReplySize}

InitReentrant ==
    /\ \E t \in {OTB_MUOVI, OTB_SESSANTAQUATTRO} : self = NewDevice(t)
    /\ net = [sock |-> 0, orphans |-> 0, slot |-> FALSE]
    /\ out = NoOutput("__init__")
    /\ hist = NoHistory
    /\ dec = NoPass

\* a handler other than _read_data has run: the record of the last pass is void
CommitNoPass(r) ==
    /\ self' = r.self
    /\ net' = r.net
    /\ out' = r.out
    /\ hist' = r.hist
    /\ dec' = NoPass

\* toggle_connection with an address, the listen and the writes succeeding
ToggleConnectionReentrant ==
    \E settings \in ConnectionSettings \ {NoSettings} :
        /\ AddressFree \/ self.is_connected
        /\ LET r == toggle_connection(Begin("toggle_connection"), settings,
                                      TRUE, TRUE, TRUE)
           IN  CommitNoPass([r EXCEPT !.hist = NoSession(r)])

\* the hardware connects to the listening server
PeerConnectsReentrant ==
    /\ self._interface = "listening"
    /\ LET r == Listener_make_request(Begin("_make_request"), TRUE)
       IN  CommitNoPass([r EXCEPT !.hist = NoSession(r)])

\* configure_device(params), the write succeeding
ConfigureDeviceReentrant ==
    \E params \in ParamsOf(self._device_type) :
        LET r == configure_device(Begin("configure_device"), params, TRUE, TRUE)
        IN  CommitNoPass([r EXCEPT !.hist = NoSession(r)])

\* toggle_streaming(), the write succeeding
ToggleStreamingReentrant ==
    LET r == toggle_streaming(Begin("toggle_streaming"), TRUE, TRUE)
    IN  CommitNoPass([r EXCEPT !.hist = SessionAfterToggle(r)])

\* a chunk of k bytes arrives: readyRead runs _read_data, data_available its slot
BytesAvailableReentrant ==
    \E k \in ChunkSizesReentrant(self) :
        \E h \in Handlers(self) :
            /\ CanReceive
            /\ net.sock + k <= MaxBytes(self)
            /\ self._received_bytes <= MaxBytes(self)
            /\ hist.sess_bytes + k <= MaxBytes(self)
            /\ LET b == Begin("_read_data")
                   p == _read_data_reentrant([b EXCEPT !.net.sock = @ + k], h)
               IN  /\ self' = p.w.self
                   /\ net' = p.w.net
                   /\ out' = p.w.out
                   /\ hist' = [SessionAfterRead(p.w, k) EXCEPT !.sess_valid = FALSE,
                                                                !.rx = RxIdle]
                   /\ dec' = [kind |-> IF p.ran THEN h.kind ELSE "none",
                              ran |-> p.ran, returned |-> p.returned,
                              late |-> p.late, mixed |-> p.mixed,
                              legal |-> /\ self._is_configured
                                        /\ StreamingAsConfigured(self, hist)
                                        /\ self._buffer_size = ProfileFrameSize(self),
                              frames |-> p.w.out.frames]

NextReentrant ==
    \/ ToggleConnectionReentrant
    \/ PeerConnectsReentrant
    \/ ConfigureDeviceReentrant
    \/ ToggleStreamingReentrant
    \/ BytesAvailableReentrant

SpecReentrant == InitReentrant /\ [][NextReentrant]_vars

\* C36: when the slot of data_available has called toggle_streaming or
\* configure_device on the first frame of a pass of a session that streams
\* as configured, and the emit has returned, the pass emits no later frame with
\* _is_streaming false and cuts no frame with one threshold to decode or
\* split it with another profile.
C36_ReentrantPass ==
    (dec.legal /\ dec.returned) => (dec.late = 0 /\ ~dec.mixed)

(***************************************************************************)
(* The stream_toggled signal.                                              *)
(***************************************************************************)
\* the values of the stream_toggled emissions of a handler, in order
StreamToggledValues(o) ==
    LET at == {i \in 1..Len(o.sig) : o.sig[i][1] = "stream_toggled"}
        nth[k \in 0..Len(o.sig)] ==
            IF k = 0 THEN <<>>
            ELSE IF k \in at THEN Append(nth[k - 1], o.sig[k][2]) ELSE nth[k - 1]
    IN  nth[Len(o.sig)]

\* C37: on a session whose transport is open, a handler that changes
\* _is_streaming emits stream_toggled exactly once, with the new value, and
\* a handler that leaves it as it was emits none.
C37_StreamToggledOncePerChange ==
    [][TransportOpen(self) =>
           IF self'._is_streaming # self._is_streaming
           THEN StreamToggledValues(out') = <<self'._is_streaming>>
           ELSE StreamToggledValues(out') = <<>>]_vars

(***************************************************************************)
(* The polling timer of the Mindrove device.                               *)
(***************************************************************************)
\* C38: the polling timer of a Mindrove session is active exactly when
\* _is_streaming is true, whichever board calls have failed, and it is not
\* active on a session that is not connected.
C38_TimerFollowsStreaming ==
    /\ (self._timer = "active") <=> self._is_streaming
    /\ ~self.is_connected => self._timer = "inactive"

(***************************************************************************)
(* The Sessantaquattro widget                                              *)
(* (gui/device_template_widgets/otb/otb_sessantaquattro_widget.py): three  *)
(* push buttons over an OTBSessantaquattro. The slots of the device        *)
(* signals are direct connections: they run inside the emit. dec holds     *)
(* isEnabled() of the buttons.                                             *)
(***************************************************************************)
\* _initialize_ui: the connect button as the form creates it, the other two
\* disabled
Buttons == [connect |-> TRUE, configure |-> FALSE, stream |-> FALSE]

\* OTBSessantaquattroWidget._connection_toggled
_connection_toggled(b, is_connected) ==
    IF is_connected
    THEN [b EXCEPT !.connect = TRUE, !.configure = TRUE]
    ELSE [b EXCEPT !.connect = TRUE, !.configure = FALSE, !.stream = FALSE]

\* OTBSessantaquattroWidget._configuration_toggled
_configuration_toggled(b, is_configured) ==
    IF is_configured THEN [b EXCEPT !.stream = TRUE] ELSE b

\* OTBSessantaquattroWidget._stream_toggled
_stream_toggled(b, is_streaming) ==
    [b EXCEPT !.stream = TRUE, !.configure = ~is_streaming]

\* the slots of the signals that a handler emitted, in the order of the emits
RECURSIVE RunSlots(_, _)
RunSlots(b, sig) ==
    IF sig = <<>> THEN b
    ELSE LET b1 == IF sig[1][1] = "connect_toggled"
                   THEN _connection_toggled(b, sig[1][2])
                   ELSE IF sig[1][1] = "configure_toggled"
                   THEN _configuration_toggled(b, sig[1][2])
                   ELSE IF sig[1][1] = "stream_toggled"
                   THEN _stream_toggled(b, sig[1][2])
                   ELSE b
         IN  RunSlots(b1, Tail(sig))

InitWidget ==
    /\ self = NewDevice(OTB_SESSANTAQUATTRO)
    /\ net = [sock |-> 0, orphans |-> 0, slot |-> FALSE]
    /\ out = NoOutput("__init__")
    /\ hist = NoHistory
    /\ dec = Buttons

\* the handler r has run with the buttons b: its signals ran their slots
CommitWidget(r, b) ==
    /\ self' = r.self
    /\ net' = r.net
    /\ out' = r.out
    /\ hist' = NoSession(r)
    /\ dec' = RunSlots(b, r.out.sig)

\* the user clicks the connect button: OTBSessantaquattroWidget._toggle_connection
\* with the address of the two line edits
WidgetToggleConnection ==
    \E settings \in ConnectionSettings \ {NoSettings}, ok, wok, rd \in BOOLEAN :
        /\ dec.connect
        /\ ok => AddressFree
        /\ LET b == IF ~self.is_connected THEN [dec EXCEPT !.connect = FALSE] ELSE dec
           IN  CommitWidget(toggle_connection(Begin("toggle_connection"), settings,
                                              ok, wok, rd), b)

\* the user clicks the configure button: _toggle_configuration
WidgetToggleConfiguration ==
    \E params \in SessantaquattroFullParams, ok, rd \in BOOLEAN :
        /\ dec.configure
        /\ CommitWidget(configure_device(Begin("configure_device"), params, ok, rd), dec)

\* the user clicks the stream button: _toggle_stream
WidgetToggleStream ==
    \E ok, rd \in BOOLEAN :
        /\ dec.stream
        /\ CommitWidget(toggle_streaming(Begin("toggle_streaming"), ok, rd),
                        [dec EXCEPT !.stream = FALSE])

\* the hardware connects to the listening server
WidgetPeerConnects ==
    /\ self._interface = "listening"
    /\ CommitWidget(Listener_make_request(Begin("_make_request"), TRUE), dec)

\* the connection timeout timer fires
WidgetTimeout ==
    \E rd \in BOOLEAN :
        /\ self._connection_timeout_timer = "active"
        /\ CommitWidget(_disconnect_from_device(
                            [Begin("timeout") EXCEPT
                                 !.self._connection_timeout_timer = "inactive"], rd),
                        dec)

NextWidget ==
    \/ WidgetToggleConnection
    \/ WidgetToggleConfiguration
    \/ WidgetToggleStream
    \/ WidgetPeerConnects
    \/ WidgetTimeout

\* the event loop runs the slot of the single-shot timer when it expires
SpecWidget == InitWidget /\ [][NextWidget]_vars /\ WF_vars(WidgetTimeout)

\* C39: a connect button that _toggle_connection has disabled for an attempt
\* is eventually enabled again.
C39_ConnectButtonReenabled == (~dec.connect) ~> dec.connect

====
